---- MODULE Spec2Model ----
(***************************************************************************)
(* A model of the animation core of bevy-toolbox (src/src/animation.rs):   *)
(* the single-step Animator, the SequenceAnimator and the two tick         *)
(* systems that drive them once per frame.                                 *)
(*                                                                         *)
(* Arithmetic.  Time is counted in half seconds, so a Duration of 1 s is 2 *)
(* and a frame delta of 1.5 s is 3.  A normalised progress p (an f32 in    *)
(* the source) is kept as the integer p * One, where One is the least      *)
(* common multiple of the step durations of the model: every quotient      *)
(* elapsed / duration and every product overshoot * duration the code      *)
(* computes is then an exact integer (see Exact below), and the values are *)
(* small dyadic rationals, which f32 represents exactly as well.           *)
(* Values written by a lens are kept scaled by One in the same way.        *)
(***************************************************************************)
EXTENDS Integers, Sequences, FiniteSets, TLC

\* ------------------------------------------------------------------ bounds

\* The largest frame delta (time.delta_seconds()), in half seconds.
MaxElapsed == 5

\* The longest step list a SequenceAnimator is built from.
MaxSteps == 2

\* Ticks whose integrated progress would leave [-ProgCap, ProgCap] (in units
\* of 1.0) are not taken: a Repeat::Always animator ticked with more than two
\* durations per frame otherwise grows without bound.
ProgCap == 3

\* The largest magnitude of a point's coordinate, in half units, and the
\* largest grid size.
MaxCoord == 12

MaxGrid == 3

\* The keys held down at once, and the sprites placed.
MaxPressed == 2

MaxPlaced == 1

\* The durations of the Animation and Delay descriptors, in half seconds.
Durations == {2, 4}

\* The entities of the world and the ids given to with_id.
Entities == {1, 2}

AnimatorIds == {7}

RECURSIVE Lcm(_, _)
Lcm(S, n) == IF \A d \in S : n % d = 0 THEN n ELSE Lcm(S, n + 1)

\* The fixed-point image of the progress value 1.0.
One == Lcm(Durations, 1)

\* Option<u32>: None is the empty sequence, Some(id) is <<id>>.
None == <<>>

Some(x) == <<x>>

\* ------------------------------------------------------- curves and lenses

\* AnimationCurve::eval on a progress scaled by One.  Only the Linear and Step
\* variants are modelled; the cutoff of a Step is scaled like a progress.
Linear == [kind |-> "Linear", cutoff |-> 0]

Step(cutoff) == [kind |-> "Step", cutoff |-> cutoff]

EvalStepStrictLess(curve, progress) ==
    IF curve.kind = "Linear" THEN progress
    ELSE IF curve.cutoff <= progress THEN 0 ELSE One

eval(curve, progress) ==
    IF curve.kind = "Linear" THEN progress
    ELSE IF curve.cutoff < progress THEN 0 ELSE One

\* Vec3 arithmetic, component-wise.
VecAdd(a, b) == [i \in 1..3 |-> a[i] + b[i]]

VecSub(a, b) == [i \in 1..3 |-> a[i] - b[i]]

VecScale(a, k) == [i \in 1..3 |-> a[i] * k]

\* The two lenses; start and end are in whole units, the value written is
\* scaled by One: (start + (end - start) * progress) * One.
TransformTranslationLens(start, end) ==
    [field |-> "translation", start |-> start, end |-> end]

TransformScaleLens(start, end) ==
    [field |-> "scale", start |-> start, end |-> end]

LerpValueClamped(lens, progress) ==
    VecAdd(VecScale(lens.start, One),
           VecScale(VecSub(lens.end, lens.start),
                    IF progress < 0 THEN 0 ELSE IF progress > One THEN One ELSE progress))

LerpValue(lens, progress) ==
    VecAdd(VecScale(lens.start, One), VecScale(VecSub(lens.end, lens.start), progress))

LerpResetsTheOtherField(lens, target, progress) ==
    IF lens.field = "translation"
    THEN [target EXCEPT !.translation = LerpValue(lens, progress),
                        !.scale = VecScale(<<1, 1, 1>>, One)]
    ELSE [target EXCEPT !.scale = LerpValue(lens, progress),
                        !.translation = VecScale(<<0, 0, 0>>, One)]

lerp(lens, target, progress) ==
    IF lens.field = "translation"
    THEN [target EXCEPT !.translation = LerpValue(lens, progress)]
    ELSE [target EXCEPT !.scale = LerpValue(lens, progress)]

\* Transform::from_translation(pos).with_scale(scale) of the spawned sprite.
SpawnTransform == [translation |-> VecScale(<<0, 0, 0>>, One),
                   scale |-> VecScale(<<1, 1, 1>>, One),
                   rotation |-> <<0, 0, 0, 1>>]

\* ------------------------------------------------------------- direction

Not(direction) == IF direction = "Forward" THEN "Backward" ELSE "Forward"

StartPointAlwaysZero(direction) == 0

start_point(direction) == IF direction = "Forward" THEN 0 ELSE One

factor(direction) == IF direction = "Forward" THEN 1 ELSE -1

\* AnimationCompleted
AnimationCompleted(entity, animator_id, animation_id) ==
    [entity |-> entity, animator_id |-> animator_id, animation_id |-> animation_id]

\* What one call of a tick function did, for the properties below: the elapsed
\* time it was given, the step index, direction and progress it found
\* (entry), whether it returned at once because the animator was completed,
\* the progress right after integration, the values handed to the curve and
\* to the lens, the number of events it sent and the overtime it computed.
Call(elapsed, current, direction, entry, skipped, integrated, curveIn, lensIn, sent, overtime) ==
    [elapsed |-> elapsed, current |-> current, direction |-> direction,
     entry |-> entry, skipped |-> skipped, integrated |-> integrated,
     curveIn |-> curveIn, lensIn |-> lensIn, sent |-> sent, overtime |-> overtime]

\* ------------------------------------------------------ single-step Animator

AnimatorNew(animation, repeat, lens) ==
    [id |-> None,
     state |-> [completed |-> FALSE, direction |-> "Forward", progress |-> 0],
     animation |-> animation, repeat |-> repeat, lens |-> lens]

AnimatorNewWithDirection(animation, direction, repeat, lens) ==
    [id |-> None,
     state |-> [completed |-> FALSE, direction |-> direction,
                progress |-> start_point(direction)],
     animation |-> animation, repeat |-> repeat, lens |-> lens]

WithIdDropped(self, id) == self

with_id(self, id) == [self EXCEPT !.id = Some(id)]

\* progress_made = time_elapsed / full_duration
ProgressMade(time_elapsed, full_duration) == (time_elapsed * One) \div full_duration

\* The value a completed Animator's tick returns.
Terminal(direction) == IF direction = "Forward" THEN One ELSE 0

\* The three arms of `match self.repeat`, applied to the state after
\* integration; each gives the new state and the events it sends.
RepeatOnceInclusive(state, id, entity) ==
    IF state.progress >= One
    THEN [state |-> [state EXCEPT !.completed = TRUE, !.progress = One],
          sent |-> <<AnimationCompleted(entity, id, 0)>>]
    ELSE IF state.progress < 0
    THEN [state |-> [state EXCEPT !.completed = TRUE, !.progress = 0],
          sent |-> <<AnimationCompleted(entity, id, 0)>>]
    ELSE [state |-> state, sent |-> <<>>]

RepeatOnceStopsShort(state, id, entity) ==
    IF state.progress > One
    THEN [state |-> [state EXCEPT !.progress = One], sent |-> <<>>]
    ELSE IF state.progress < 0
    THEN [state |-> [state EXCEPT !.progress = 0], sent |-> <<>>]
    ELSE [state |-> state, sent |-> <<>>]

RepeatOnce(state, id, entity) ==
    IF state.progress > One
    THEN [state |-> [state EXCEPT !.completed = TRUE, !.progress = One],
          sent |-> <<AnimationCompleted(entity, id, 0)>>]
    ELSE IF state.progress < 0
    THEN [state |-> [state EXCEPT !.completed = TRUE, !.progress = 0],
          sent |-> <<AnimationCompleted(entity, id, 0)>>]
    ELSE [state |-> state, sent |-> <<>>]

RepeatAlwaysFlipsOnWrap(state) ==
    IF state.progress > One
    THEN [state |-> [state EXCEPT !.progress = 0 + (state.progress - One),
                                  !.direction = Not(state.direction)],
          sent |-> <<>>]
    ELSE IF state.progress < 0
    THEN [state |-> [state EXCEPT !.progress = One - (0 - state.progress),
                                  !.direction = Not(state.direction)],
          sent |-> <<>>]
    ELSE [state |-> state, sent |-> <<>>]

RepeatAlways(state) ==
    IF state.progress > One
    THEN [state |-> [state EXCEPT !.progress = 0 + (state.progress - One)], sent |-> <<>>]
    ELSE IF state.progress < 0
    THEN [state |-> [state EXCEPT !.progress = One - (0 - state.progress)], sent |-> <<>>]
    ELSE [state |-> state, sent |-> <<>>]

RepeatMirroredNoFlip(state) ==
    IF state.progress > One
    THEN [state |-> [state EXCEPT !.progress = One - (state.progress - One)],
          sent |-> <<>>]
    ELSE IF state.progress < 0
    THEN [state |-> [state EXCEPT !.progress = 0 + (0 - state.progress)],
          sent |-> <<>>]
    ELSE [state |-> state, sent |-> <<>>]

RepeatMirrored(state) ==
    IF state.progress > One
    THEN [state |-> [state EXCEPT !.progress = One - (state.progress - One),
                                  !.direction = Not(state.direction)],
          sent |-> <<>>]
    ELSE IF state.progress < 0
    THEN [state |-> [state EXCEPT !.progress = 0 + (0 - state.progress),
                                  !.direction = Not(state.direction)],
          sent |-> <<>>]
    ELSE [state |-> state, sent |-> <<>>]

\* Animator::tick past its `if self.state.completed` test.
AnimatorAdvance(self, target, time_elapsed, entity, events) ==
    LET full_duration == self.animation.duration
        progress_made == ProgressMade(time_elapsed, full_duration)
        integrated == [self.state EXCEPT
                         !.progress = @ + progress_made * factor(self.state.direction)]
        arm == CASE self.repeat = "Once" -> RepeatOnce(integrated, self.id, entity)
                 [] self.repeat = "Always" -> RepeatAlways(integrated)
                 [] self.repeat = "Mirrored" -> RepeatMirrored(integrated)
        time_progress == arm.state.progress
        anim_progress == eval(self.animation.curve, time_progress)
    IN  [self |-> [self EXCEPT !.state = arm.state],
         target |-> lerp(self.lens, target, anim_progress),
         events |-> events \o arm.sent,
         ret |-> time_progress,
         calls |-> <<Call(time_elapsed, 0, self.state.direction, self.state.progress, FALSE,
                          integrated.progress, <<time_progress>>, <<anim_progress>>,
                          Len(arm.sent), 0)>>]

\* The early return of a completed Animator.
AnimatorCompletedReturn(self, target, time_elapsed, entity, events) ==
    [self |-> self, target |-> target, events |-> events,
     ret |-> Terminal(self.state.direction),
     calls |-> <<Call(time_elapsed, 0, self.state.direction, self.state.progress, TRUE,
                      self.state.progress, <<>>, <<>>, 0, 0)>>]

AnimatorTickNoCompletedTest(self, target, time_elapsed, entity, events) ==
    AnimatorAdvance(self, target, time_elapsed, entity, events)

AnimatorTick(self, target, time_elapsed, entity, events) ==
    IF self.state.completed
    THEN AnimatorCompletedReturn(self, target, time_elapsed, entity, events)
    ELSE AnimatorAdvance(self, target, time_elapsed, entity, events)

\* Duration::ZERO.  Animation and Delay are structs of public fields, and
\* neither they nor Animator::new, new_with_direction or the SequenceAnimator
\* constructors look at the duration they are given.
ZeroDuration == 0

\* A progress beyond every finite one of the model: it stands for f32's
\* infinity, which dividing a positive time_elapsed by 0.0 yields.
Infinity == (ProgCap + 1) * One

\* Animator::tick past its `if self.state.completed` test when full_duration is
\* 0.0 and time_elapsed is positive: progress_made is +inf, the integrated
\* progress is +inf (Forward) or -inf (Backward), and the Repeat::Once arm,
\* which only compares it with the boundary, ends the playback.
AnimatorAdvanceZeroDuration(self, target, time_elapsed, entity, events) ==
    LET progress_made == Infinity
        integrated == [self.state EXCEPT
                         !.progress = progress_made * factor(self.state.direction)]
        arm == RepeatOnce(integrated, self.id, entity)
        time_progress == arm.state.progress
        anim_progress == eval(self.animation.curve, time_progress)
    IN  [self |-> [self EXCEPT !.state = arm.state],
         target |-> lerp(self.lens, target, anim_progress),
         events |-> events \o arm.sent,
         ret |-> time_progress,
         calls |-> <<Call(time_elapsed, 0, self.state.direction, self.state.progress, FALSE,
                          integrated.progress, <<time_progress>>, <<anim_progress>>,
                          Len(arm.sent), 0)>>]

\* Animator::tick of an Animator whose duration may be zero.
AnimatorTickAnyDuration(self, target, time_elapsed, entity, events) ==
    IF self.state.completed
    THEN AnimatorCompletedReturn(self, target, time_elapsed, entity, events)
    ELSE IF self.animation.duration = ZeroDuration
    THEN AnimatorAdvanceZeroDuration(self, target, time_elapsed, entity, events)
    ELSE AnimatorAdvance(self, target, time_elapsed, entity, events)

\* --------------------------------------------------------- SequenceAnimator

\* AnimationStep::Animation(Animation, TLens) and AnimationStep::Delay(Delay).
\* A Delay carries neither curve nor lens; the record keeps the two fields so
\* that all steps have one shape, and nothing reads them.
AnimationStep(duration, curve, lens) ==
    [kind |-> "Animation", duration |-> duration, curve |-> curve, lens |-> lens]

DelayStep(duration) ==
    [kind |-> "Delay", duration |-> duration, curve |-> Linear,
     lens |-> TransformTranslationLens(<<0, 0, 0>>, <<0, 0, 0>>)]

SequenceAnimatorNewNeverCompleted(seq, repeat) ==
    [id |-> None,
     state |-> [completed |-> FALSE, direction |-> "Forward", progress |-> 0],
     current |-> 0, seq |-> seq, repeat |-> repeat]

SequenceAnimatorNew(seq, repeat) ==
    [id |-> None,
     state |-> [completed |-> (IF seq = <<>> THEN TRUE ELSE FALSE),
                direction |-> "Forward", progress |-> 0],
     current |-> 0, seq |-> seq, repeat |-> repeat]

\* `seq.len() - 1` on usize.  With overflow checks (a debug build) 0 - 1
\* panics; without them (a release build) it wraps to usize::MAX, which is
\* written here as its representative -1 modulo 2^64.
UsizeDecPanics(n, overflow_checks) == n = 0 /\ overflow_checks

UsizeDec(n) == n - 1

\* SequenceAnimator::new_with_direction.  The result is the animator, or a
\* panic when the `current` field cannot be computed (no animator is built
\* then; the value field only gives the record its shape).
SequenceAnimatorNewWithDirection(seq, direction, repeat, overflow_checks) ==
    IF direction = "Backward" /\ UsizeDecPanics(Len(seq), overflow_checks)
    THEN [panic |-> TRUE, value |-> SequenceAnimatorNew(<<>>, repeat)]
    ELSE [panic |-> FALSE,
          value |-> [id |-> None,
                     state |-> [completed |-> (IF seq = <<>> THEN TRUE ELSE FALSE),
                                direction |-> direction,
                                progress |-> start_point(direction)],
                     current |-> (IF direction = "Forward" THEN 0
                                  ELSE UsizeDec(Len(seq))),
                     seq |-> seq, repeat |-> repeat]]

\* self.seq[self.current]: the step list is a 1-based sequence here.
CurrentStep(self) == self.seq[self.current + 1]

\* SequenceAnimator::next_animation: the arms of the match, in source order,
\* grouped by repeat policy.  `last` of the source is lastIndex here.
NextOnceAdvancesOnCompletion(self) ==
    LET lastIndex == Len(self.seq) - 1
        d == self.state.direction
        i == self.current
    IN  CASE d = "Forward" /\ i = lastIndex ->
               [self EXCEPT !.state.completed = TRUE, !.state.progress = One,
                            !.current = @ + 1]
          [] d = "Forward" /\ i # lastIndex ->
               [self EXCEPT !.current = @ + 1, !.state.progress = 0]
          [] d = "Backward" /\ i = 0 ->
               [self EXCEPT !.state.completed = TRUE, !.state.progress = 0]
          [] d = "Backward" /\ i # 0 ->
               [self EXCEPT !.current = @ - 1, !.state.progress = One]

NextOnceNoClamp(self) ==
    LET lastIndex == Len(self.seq) - 1
        d == self.state.direction
        i == self.current
    IN  CASE d = "Forward" /\ i = lastIndex ->
               [self EXCEPT !.state.completed = TRUE]
          [] d = "Forward" /\ i # lastIndex ->
               [self EXCEPT !.current = @ + 1, !.state.progress = 0]
          [] d = "Backward" /\ i = 0 ->
               [self EXCEPT !.state.completed = TRUE, !.state.progress = 0]
          [] d = "Backward" /\ i # 0 ->
               [self EXCEPT !.current = @ - 1, !.state.progress = One]

NextOnceBackwardEndsAtOne(self) ==
    LET lastIndex == Len(self.seq) - 1
        d == self.state.direction
        i == self.current
    IN  CASE d = "Forward" /\ i = lastIndex ->
               [self EXCEPT !.state.completed = TRUE, !.state.progress = One]
          [] d = "Forward" /\ i # lastIndex ->
               [self EXCEPT !.current = @ + 1, !.state.progress = 0]
          [] d = "Backward" /\ i = 0 ->
               [self EXCEPT !.state.completed = TRUE, !.state.progress = One]
          [] d = "Backward" /\ i # 0 ->
               [self EXCEPT !.current = @ - 1, !.state.progress = One]

NextOnceEntersAtEnd(self) ==
    LET lastIndex == Len(self.seq) - 1
        d == self.state.direction
        i == self.current
    IN  CASE d = "Forward" /\ i = lastIndex ->
               [self EXCEPT !.state.completed = TRUE, !.state.progress = One]
          [] d = "Forward" /\ i # lastIndex ->
               [self EXCEPT !.current = @ + 1, !.state.progress = One]
          [] d = "Backward" /\ i = 0 ->
               [self EXCEPT !.state.completed = TRUE, !.state.progress = 0]
          [] d = "Backward" /\ i # 0 ->
               [self EXCEPT !.current = @ - 1, !.state.progress = One]

NextOnceStartsAgain(self) ==
    LET lastIndex == Len(self.seq) - 1
        d == self.state.direction
        i == self.current
    IN  CASE d = "Forward" /\ i = lastIndex ->
               [self EXCEPT !.current = 0, !.state.progress = 0]
          [] d = "Forward" /\ i # lastIndex ->
               [self EXCEPT !.current = @ + 1, !.state.progress = 0]
          [] d = "Backward" /\ i = 0 ->
               [self EXCEPT !.state.completed = TRUE, !.state.progress = 0]
          [] d = "Backward" /\ i # 0 ->
               [self EXCEPT !.current = @ - 1, !.state.progress = One]

NextOnce(self) ==
    LET lastIndex == Len(self.seq) - 1
        d == self.state.direction
        i == self.current
    IN  CASE d = "Forward" /\ i = lastIndex ->
               [self EXCEPT !.state.completed = TRUE, !.state.progress = One]
          [] d = "Forward" /\ i # lastIndex ->
               [self EXCEPT !.current = @ + 1, !.state.progress = 0]
          [] d = "Backward" /\ i = 0 ->
               [self EXCEPT !.state.completed = TRUE, !.state.progress = 0]
          [] d = "Backward" /\ i # 0 ->
               [self EXCEPT !.current = @ - 1, !.state.progress = One]

NextAlwaysNoWrapBack(self) ==
    LET lastIndex == Len(self.seq) - 1
        d == self.state.direction
        i == self.current
    IN  CASE d = "Forward" /\ i = lastIndex ->
               [self EXCEPT !.current = 0, !.state.progress = 0]
          [] d = "Forward" /\ i # lastIndex ->
               [self EXCEPT !.current = @ + 1, !.state.progress = 0]
          [] d = "Backward" /\ i = 0 ->
               [self EXCEPT !.state.progress = One]
          [] d = "Backward" /\ i # 0 ->
               [self EXCEPT !.current = @ - 1, !.state.progress = One]

NextAlways(self) ==
    LET lastIndex == Len(self.seq) - 1
        d == self.state.direction
        i == self.current
    IN  CASE d = "Forward" /\ i = lastIndex ->
               [self EXCEPT !.current = 0, !.state.progress = 0]
          [] d = "Forward" /\ i # lastIndex ->
               [self EXCEPT !.current = @ + 1, !.state.progress = 0]
          [] d = "Backward" /\ i = 0 ->
               [self EXCEPT !.current = lastIndex, !.state.progress = One]
          [] d = "Backward" /\ i # 0 ->
               [self EXCEPT !.current = @ - 1, !.state.progress = One]

NextMirroredFlipKeepsStart(self) ==
    LET lastIndex == Len(self.seq) - 1
        d == self.state.direction
        i == self.current
    IN  CASE d = "Forward" /\ i = lastIndex ->
               [self EXCEPT !.state.direction = "Backward", !.state.progress = 0]
          [] d = "Forward" /\ i # lastIndex ->
               [self EXCEPT !.current = @ + 1, !.state.progress = 0]
          [] d = "Backward" /\ i = 0 ->
               [self EXCEPT !.state.direction = "Forward", !.state.progress = 0]
          [] d = "Backward" /\ i # 0 ->
               [self EXCEPT !.current = @ - 1, !.state.progress = One]

NextMirroredBackEntersAtStart(self) ==
    LET lastIndex == Len(self.seq) - 1
        d == self.state.direction
        i == self.current
    IN  CASE d = "Forward" /\ i = lastIndex ->
               [self EXCEPT !.state.direction = "Backward", !.state.progress = One]
          [] d = "Forward" /\ i # lastIndex ->
               [self EXCEPT !.current = @ + 1, !.state.progress = 0]
          [] d = "Backward" /\ i = 0 ->
               [self EXCEPT !.state.direction = "Forward", !.state.progress = 0]
          [] d = "Backward" /\ i # 0 ->
               [self EXCEPT !.current = @ - 1, !.state.progress = 0]

NextMirrored(self) ==
    LET lastIndex == Len(self.seq) - 1
        d == self.state.direction
        i == self.current
    IN  CASE d = "Forward" /\ i = lastIndex ->
               [self EXCEPT !.state.direction = "Backward", !.state.progress = One]
          [] d = "Forward" /\ i # lastIndex ->
               [self EXCEPT !.current = @ + 1, !.state.progress = 0]
          [] d = "Backward" /\ i = 0 ->
               [self EXCEPT !.state.direction = "Forward", !.state.progress = 0]
          [] d = "Backward" /\ i # 0 ->
               [self EXCEPT !.current = @ - 1, !.state.progress = One]

next_animation(self) ==
    CASE self.repeat = "Once" -> NextOnce(self)
      [] self.repeat = "Always" -> NextAlways(self)
      [] self.repeat = "Mirrored" -> NextMirrored(self)

\* overtime = (excess progress) * duration of the step that overshot
OvertimeAtNextDuration(self, excess, duration) ==
    (excess * next_animation(self).seq[next_animation(self).current + 1].duration) \div One

OvertimeLost(self, excess, duration) == 0

Overtime(self, excess, duration) == (excess * duration) \div One

\* The event sent on a boundary crossing.
StepCompletedAfterAdvance(self, entity) ==
    AnimationCompleted(entity, self.id, next_animation(self).current)

StepCompleted(self, entity) == AnimationCompleted(entity, self.id, self.current)

ClampNothing(x, min, max) == x

\* f32::clamp
clamp(x, min, max) == IF x < min THEN min ELSE IF x > max THEN max ELSE x

StepTargetDelayCallsLens(step, target, anim_progress) ==
    IF step.kind = "Animation" THEN lerp(step.lens, target, anim_progress)
    ELSE lerp(TransformScaleLens(<<0, 0, 0>>, <<1, 1, 1>>), target, anim_progress)

\* The target after the match arm of the step: the Animation arm calls
\* lens.lerp, the Delay arm has no lens and no call.
StepTarget(step, target, anim_progress) ==
    IF step.kind = "Animation" THEN lerp(step.lens, target, anim_progress) ELSE target

\* One pass of SequenceAnimator::tick over the current step (lines 435-487):
\* integration, for an Animation step the clamped curve and lens call, and on
\* a boundary crossing the overtime, the event and next_animation.
SequenceStepPass(self, target, time_elapsed, entity) ==
    LET step == CurrentStep(self)
        full_duration == step.duration
        progress_made == ProgressMade(time_elapsed, full_duration)
        progress == self.state.progress + progress_made * factor(self.state.direction)
        integrated == [self EXCEPT !.state.progress = progress]
        time_progress == clamp(progress, 0, One)
        anim_progress == eval(step.curve, time_progress)
        isAnim == step.kind = "Animation"
        crossed == progress > One \/ progress < 0
        excess == IF progress > One THEN progress - One ELSE 0 - progress
    IN  [self |-> IF crossed THEN next_animation(integrated) ELSE integrated,
         target |-> StepTarget(step, target, anim_progress),
         sent |-> IF crossed THEN <<StepCompleted(integrated, entity)>> ELSE <<>>,
         overtime |-> IF crossed THEN Overtime(integrated, excess, full_duration) ELSE 0,
         call |-> Call(time_elapsed, self.current, self.state.direction, self.state.progress,
                       FALSE, progress,
                       IF isAnim THEN <<time_progress>> ELSE <<>>,
                       IF isAnim THEN <<anim_progress>> ELSE <<>>,
                       IF crossed THEN 1 ELSE 0,
                       IF crossed THEN Overtime(integrated, excess, full_duration) ELSE 0)]

\* SequenceAnimator::tick, with the recursive call for the overtime.
RECURSIVE SequenceAnimatorTick(_, _, _, _, _, _)
\* Lines 489-492: tick once more for the overtime.
TickOnceMore(pass, entity, events, calls) ==
    IF pass.overtime # 0
    THEN SequenceAnimatorTick(pass.self, pass.target, pass.overtime, entity,
                              events \o pass.sent, Append(calls, pass.call))
    ELSE [self |-> pass.self, target |-> pass.target,
          events |-> events \o pass.sent, calls |-> Append(calls, pass.call)]

SequenceAnimatorTick(self, target, time_elapsed, entity, events, calls) ==
    IF self.state.completed
    THEN [self |-> self, target |-> target, events |-> events,
          calls |-> Append(calls, Call(time_elapsed, self.current, self.state.direction,
                                       self.state.progress, TRUE, self.state.progress, <<>>, <<>>, 0, 0))]
    ELSE CHOOSE r \in {TickOnceMore(pass, entity, events, calls) :
                          pass \in {SequenceStepPass(self, target, time_elapsed, entity)}} : TRUE

\* ------------------------------------------------------------------- grid

\* An f32 of the model: a sign bit and a magnitude counted in halves, so that
\* 0.0 and -0.0 are two values as they are in f32.  The magnitudes of the
\* model are far below 2^24: every f32 operation on them is exact.
F32(neg, mag) == [neg |-> neg, mag |-> mag]

\* The number an f32 stands for, in halves; -0.0 and 0.0 stand for the same.
Value(v) == IF v.neg THEN 0 - v.mag ELSE v.mag

\* f32::abs clears the sign bit.
abs(v) == F32(FALSE, v.mag)

\* f32::signum as i32: 1 when the sign bit is clear (+0.0 included), -1 when
\* it is set (-0.0 included).
signum(v) == IF v.neg THEN 0 - 1 ELSE 1

\* `as u32` of an f32: truncation toward zero, a negative value saturating at 0.
AsU32(v) == IF v.neg THEN 0 ELSE v.mag \div 2

\* <Vec2 as AsGridCoord>::as_grid_coord
as_grid_coord(self, grid_size) ==
    [coord |-> <<AsU32(abs(self[1])) \div grid_size, AsU32(abs(self[2])) \div grid_size>>,
     quad |-> <<signum(self[1]), signum(self[2])>>]

\* One axis of GridCoord::translation, in halves:
\* (quad * grid_size * coord) as f32 + ((quad * grid_size) as f32 / 2.0)
AxisTranslation(quad, coord, grid_size) ==
    (quad * grid_size * coord) * 2 + quad * grid_size

\* GridCoord::translation
translation(self, grid_size) ==
    <<AxisTranslation(self.quad[1], self.coord[1], grid_size),
      AxisTranslation(self.quad[2], self.coord[2], grid_size)>>

\* -------------------------------------------------------------- inventory

\* BaseInventory(pub Inventory<9>): the number of slots.
N == 9

\* An Item is its ItemCode.
Item(code) == [code |-> code]

\* Inventory::default: every slot empty, nothing selected.  The array is
\* indexed from 0 as in the source; the slots are counted from 1.
InventoryDefault == [items |-> [i \in 0..(N - 1) |-> None], selected |-> 0]

\* What a method that indexes the array does: it returns a value, or the
\* index is out of bounds and the process panics.
Returns(value) == [panics |-> FALSE, value |-> value]

Panics == [panics |-> TRUE, value |-> None]

\* self.items[index].as_ref()
Index(items, index) == IF index \in DOMAIN items THEN Returns(items[index]) ELSE Panics

\* Inventory::selected_slot
selected_slot(self) == IF self.selected = 0 THEN None ELSE Some(self.selected)

\* Inventory::clear_selection
clear_selection(self) == [self EXCEPT !.selected = 0]

\* Inventory::select_item
InventorySelectItem(self, selection) == [self EXCEPT !.selected = selection]

\* Inventory::selected_item
selected_item(self) ==
    IF self.selected = 0 THEN Returns(None) ELSE Index(self.items, self.selected - 1)

\* Inventory::get_item
get_item(self, slot) == IF slot = 0 THEN Returns(None) ELSE Index(self.items, slot - 1)

\* Inventory::put_item, called with the slots 1 and 2 only.
put_item(self, slot, item) == [self EXCEPT !.items[slot - 1] = Some(item)]

\* A table that counts the keys from 1: Key9 selects a tenth slot.
NumericKeyCodesFromOne ==
    <<<<"Key0", 1>>, <<"Key1", 2>>, <<"Key2", 3>>, <<"Key3", 4>>, <<"Key4", 5>>,
      <<"Key5", 6>>, <<"Key6", 7>>, <<"Key7", 8>>, <<"Key8", 9>>, <<"Key9", 10>>>>

\* NUMERIC_KEY_CODES: each numeric KeyCode with its number.
NUMERIC_KEY_CODES ==
    <<<<"Key0", 0>>, <<"Key1", 1>>, <<"Key2", 2>>, <<"Key3", 3>>, <<"Key4", 4>>,
      <<"Key5", 5>>, <<"Key6", 6>>, <<"Key7", 7>>, <<"Key8", 8>>, <<"Key9", 9>>>>

\* The keys of the keyboard the model presses: the ten numeric keys and one
\* key the table does not hold.
KeyCodes == {NUMERIC_KEY_CODES[i][1] : i \in DOMAIN NUMERIC_KEY_CODES} \cup {"Escape"}

\* The loop of select_item from its entry i on: every pressed key of the
\* table selects its number, in the table's order.
RECURSIVE SelectPressed(_, _, _)
SelectPressed(self, pressed, i) ==
    IF i > Len(NUMERIC_KEY_CODES)
    THEN self
    ELSE SelectPressed(IF NUMERIC_KEY_CODES[i][1] \in pressed
                       THEN InventorySelectItem(self, NUMERIC_KEY_CODES[i][2])
                       ELSE self,
                       pressed, i + 1)

\* f32 negation, addition and subtraction on the values of the model; a sum
\* that is zero is -0.0 only when both terms are -0.0.
FNeg(v) == F32(~v.neg, v.mag)

FAdd(a, b) ==
    IF Value(a) + Value(b) = 0
    THEN F32(a.neg /\ b.neg, 0)
    ELSE IF Value(a) + Value(b) < 0
         THEN F32(TRUE, 0 - (Value(a) + Value(b)))
         ELSE F32(FALSE, Value(a) + Value(b))

FSub(a, b) == FAdd(a, FNeg(b))

\* v / 2.0, exact on the even magnitudes it is applied to.
Half(v) == F32(v.neg, v.mag \div 2)

\* utils::cursor_to_window_coord
cursor_to_window_coord(cursor, window_h, window_w) ==
    <<FSub(cursor[1], Half(window_w)), FAdd(FNeg(cursor[2]), Half(window_h))>>

\* An ItemPreview entity: its Visibility and the x and y of its translation.
Preview(visibility, xy) == [visibility |-> visibility, translation |-> xy]

\* A sprite place_selected_item has spawned: the item whose colour it took
\* and the x and y of the transform it cloned.
Placed(code, xy) == [code |-> code, translation |-> xy]

\* ------------------------------------------------------------------ state

VARIABLES
    animator,      \* entity -> its Animator component, for the entities that have one
    seqAnimator,   \* entity -> its SequenceAnimator component
    transform,     \* entity -> its Transform component (the target of the lenses)
    events,        \* the AnimationCompleted events sent during the latest frame
    panicked,      \* the process has panicked
    elapsedTotal,  \* the time ticked since the spawn, saturating at TotalCap
    last,          \* the latest operation: its arguments, the state it found, its calls
    grid,          \* a point, a grid size and the grid translation found for them
    frame,         \* the frame the tick systems are in: its delta and their positions
    inventory,     \* the BaseInventory resource: its slots and its selection
    key,           \* the Input<KeyCode> resource: the keys that are pressed
    preview,       \* item code -> the visibility and translation of its ItemPreview
    placed         \* the sprites place_selected_item has spawned

vars == <<animator, seqAnimator, transform, events, panicked, elapsedTotal, last, grid,
          frame, inventory, key, preview, placed>>

Max(S) == CHOOSE x \in S : \A y \in S : y <= x

Min(S) == CHOOSE x \in S : \A y \in S : x <= y

\* Past the longest duration all totals count alike.
TotalCap == Max(Durations) + 1

NoComponent == [e \in {} |-> 0]

\* The playback state an operation found, with the step index (0 for an Animator).
Playback(state, current) ==
    [completed |-> state.completed, direction |-> state.direction,
     progress |-> state.progress, current |-> current]

NoPlayback == [completed |-> FALSE, direction |-> "Forward", progress |-> 0, current |-> 0]

\* The record of an operation: its name, the entity and elapsed time passed
\* to a tick, the playback state and target it found, the value an
\* Animator::tick returned and the calls it made; for a constructor, the
\* length of the step list it was given.  with_id remembers the argument of
\* the builder's with_id call (None when it was not called).
Op(op, entity, elapsed, pre, preTarget, ret, calls, steps, id) ==
    [op |-> op, entity |-> entity, elapsed |-> elapsed, pre |-> pre,
     preTarget |-> preTarget, ret |-> ret, calls |-> calls, steps |-> steps,
     with_id |-> id]

\* The four tick systems AnimationPlugin::build adds to the Update schedule:
\* each of the two generic systems at each of the two lens types.
System(name, lens) == [name |-> name, lens |-> lens]

Systems ==
    {System(name, lens) : name \in {"animation_tick_system", "animation_sequence_tick_system"},
                          lens \in {"translation", "scale"}}

\* One run of a tick system on one entity, as the frame's log keeps it: the
\* system, the entity, the elapsed time passed to tick, the number of events
\* the tick sent.
Run(system, entity, elapsed, sent) ==
    [system |-> system, entity |-> entity, elapsed |-> elapsed, sent |-> sent]

\* A frame: the delta of its Time, the systems that have not run yet, the
\* running system (if one is) with the entities its query has yet to yield,
\* the runs made so far, and the components as the frame found them.
Frame(dt, todo, running, queue, log, start) ==
    [dt |-> dt, todo |-> todo, running |-> running, queue |-> queue, log |-> log,
     start |-> start]

World(animators, seqAnimators, transforms) ==
    [animator |-> animators, seqAnimator |-> seqAnimators, transform |-> transforms]

NoFrame == Frame(0, {}, None, <<>>, <<>>, World(NoComponent, NoComponent, NoComponent))

\* A point and a grid size whose grid translation has not been looked for.
GridQuery(point, grid_size) ==
    [translation |-> point, grid_size |-> grid_size, grid_translation_found |-> None]

Init ==
    /\ animator = NoComponent
    /\ seqAnimator = NoComponent
    /\ transform = NoComponent
    /\ events = <<>>
    /\ panicked = FALSE
    /\ elapsedTotal = 0
    /\ last = Op("init", 0, 0, NoPlayback, SpawnTransform, 0, <<>>, 0, None)
    /\ grid = GridQuery(<<F32(FALSE, 0), F32(FALSE, 0)>>, 1)
    /\ frame = NoFrame
    /\ inventory = InventoryDefault
    /\ key = {}
    /\ preview = NoComponent
    /\ placed = <<>>

\* ----------------------------------------------------------- construction

Repeats == {"Once", "Always", "Mirrored"}

Directions == {"Forward", "Backward"}

Curves == {Linear, Step(One \div 2)}

Lenses == {TransformTranslationLens(<<0, 0, 0>>, <<2, 1, 0>>),
           TransformScaleLens(<<1, 1, 1>>, <<2, 2, 1>>)}

\* The steps a sequence is built from.
Steps ==
    {AnimationStep(Min(Durations), Linear,
                   TransformTranslationLens(<<0, 0, 0>>, <<2, 1, 0>>)),
     AnimationStep(Max(Durations), Step(One \div 2),
                   TransformTranslationLens(<<2, 1, 0>>, <<4, 1, 0>>)),
     DelayStep(Min(Durations))}

StepLists == UNION {[1..n -> Steps] : n \in 0..MaxSteps}

\* with_id is optional in the builder chain.
WithOptionalId(self, id) == IF id = None THEN self ELSE with_id(self, id[1])

OptionalIds == {None} \cup {Some(i) : i \in AnimatorIds}

\* commands.spawn((SpriteBundle {..}, Animator::new(..))): the entity gets a
\* Transform and an Animator built by `new` or `new_with_direction`.
SpawnAnimatorOf(repeats) ==
    /\ ~panicked
    /\ DOMAIN transform = {}
    /\ \E entity \in Entities, duration \in Durations, curve \in Curves,
          repeat \in repeats, lens \in Lenses, id \in OptionalIds,
          ctor \in {"new"} \cup Directions :
          LET animation == [duration |-> duration, curve |-> curve]
              built == IF ctor = "new" THEN AnimatorNew(animation, repeat, lens)
                       ELSE AnimatorNewWithDirection(animation, ctor, repeat, lens)
              self == WithOptionalId(built, id)
          IN  /\ animator' = (entity :> self)
              /\ transform' = (entity :> SpawnTransform)
              /\ last' = Op(IF ctor = "new" THEN "Animator::new"
                            ELSE "Animator::new_with_direction",
                            entity, 0, Playback(self.state, 0), SpawnTransform, 0, <<>>, 1, id)
    /\ UNCHANGED <<seqAnimator, events, panicked, elapsedTotal, grid, frame,
                   inventory, key, preview, placed>>

SpawnAnimator == SpawnAnimatorOf(Repeats)

\* The same for a SequenceAnimator.  new_with_direction may panic, and the
\* build decides whether it does (overflow_checks).
SpawnSequenceAnimatorOf(repeats) ==
    /\ ~panicked
    /\ DOMAIN transform = {}
    /\ \E entity \in Entities, seq \in StepLists, repeat \in repeats,
          id \in OptionalIds, ctor \in {"new"} \cup Directions,
          overflow_checks \in BOOLEAN :
          LET built == IF ctor = "new"
                       THEN [panic |-> FALSE, value |-> SequenceAnimatorNew(seq, repeat)]
                       ELSE SequenceAnimatorNewWithDirection(seq, ctor, repeat,
                                                             overflow_checks)
              self == WithOptionalId(built.value, id)
              op == IF ctor = "new" THEN "SequenceAnimator::new"
                    ELSE "SequenceAnimator::new_with_direction"
          IN  IF built.panic
              THEN /\ panicked' = TRUE
                   /\ last' = Op(op, entity, 0, Playback(self.state, 0),
                                 SpawnTransform, 0, <<>>, Len(seq), id)
                   /\ UNCHANGED <<seqAnimator, transform>>
              ELSE /\ seqAnimator' = (entity :> self)
                   /\ transform' = (entity :> SpawnTransform)
                   /\ last' = Op(op, entity, 0, Playback(self.state, self.current),
                                 SpawnTransform, 0, <<>>, Len(seq), id)
                   /\ UNCHANGED panicked
    /\ UNCHANGED <<animator, events, elapsedTotal, grid, frame,
                   inventory, key, preview, placed>>

\* ------------------------------------------------------------ tick systems

Abs(x) == IF x < 0 THEN -x ELSE x

Saturate(t) == IF t > TotalCap THEN TotalCap ELSE t

\* animation_tick_system: one run in a frame whose delta is dt, one of the
\* given deltas.  The model world holds at most one entity, so the query loop
\* has at most one turn.
AnimatorSystemRun(deltas) ==
    /\ ~panicked
    /\ \E dt \in deltas, entity \in DOMAIN animator :
          \E r \in {AnimatorTick(animator[entity], transform[entity], dt, entity, <<>>)} :
              /\ Abs(r.self.state.progress) <= ProgCap * One
              /\ animator' = [animator EXCEPT ![entity] = r.self]
              /\ transform' = [transform EXCEPT ![entity] = r.target]
              /\ events' = r.events
              /\ elapsedTotal' = Saturate(elapsedTotal + dt)
              /\ last' = Op("Animator::tick", entity, dt,
                            Playback(animator[entity].state, 0), transform[entity],
                            r.ret, r.calls, last.steps, last.with_id)
    /\ UNCHANGED <<seqAnimator, panicked, grid, frame,
                   inventory, key, preview, placed>>

animation_tick_system == AnimatorSystemRun(0..MaxElapsed)

\* animation_sequence_tick_system, likewise.
SequenceSystemRun(deltas) ==
    /\ ~panicked
    /\ \E dt \in deltas, entity \in DOMAIN seqAnimator :
          \E r \in {SequenceAnimatorTick(seqAnimator[entity], transform[entity], dt,
                                          entity, <<>>, <<>>)} :
              /\ seqAnimator' = [seqAnimator EXCEPT ![entity] = r.self]
              /\ transform' = [transform EXCEPT ![entity] = r.target]
              /\ events' = r.events
              /\ elapsedTotal' = Saturate(elapsedTotal + dt)
              /\ last' = Op("SequenceAnimator::tick", entity, dt,
                            Playback(seqAnimator[entity].state, seqAnimator[entity].current),
                            transform[entity], 0, r.calls, last.steps, last.with_id)
    /\ UNCHANGED <<animator, panicked, grid, frame,
                   inventory, key, preview, placed>>

SpawnSequenceAnimator == SpawnSequenceAnimatorOf(Repeats)

animation_sequence_tick_system == SequenceSystemRun(0..MaxElapsed)

Next ==
    \/ SpawnAnimator
    \/ SpawnSequenceAnimator
    \/ animation_tick_system
    \/ animation_sequence_tick_system

Spec == Init /\ [][Next]_vars

\* ------------------------------------------------- frames that pass time

\* The animators of the liveness statement: those with Repeat::Once.
SpawnOnceAnimator == SpawnAnimatorOf({"Once"})

SpawnOnceSequenceAnimator == SpawnSequenceAnimatorOf({"Once"})

\* A run of the tick systems in a frame whose delta is positive.
PositiveTick ==
    \/ AnimatorSystemRun(1..MaxElapsed)
    \/ SequenceSystemRun(1..MaxElapsed)

\* A run of the tick systems in a frame whose delta is zero.
IdleTick ==
    \/ AnimatorSystemRun({0})
    \/ SequenceSystemRun({0})

LiveNext ==
    \/ SpawnOnceAnimator
    \/ SpawnOnceSequenceAnimator
    \/ PositiveTick
    \/ IdleTick

\* The Update schedule runs the tick systems in every frame, and frames whose
\* delta is positive keep coming.
LiveSpec == Init /\ [][LiveNext]_vars /\ WF_vars(PositiveTick)

\* ------------------------------------------- playback of a zero duration

\* commands.spawn of an Animator whose Animation is of any duration, zero
\* included: the constructors take it as they take every other.
SpawnAnimatorOfAnyDuration ==
    /\ ~panicked
    /\ DOMAIN transform = {}
    /\ \E entity \in Entities, duration \in Durations \cup {ZeroDuration},
          curve \in Curves, repeat \in Repeats, lens \in Lenses, id \in OptionalIds,
          ctor \in {"new"} \cup Directions :
          LET animation == [duration |-> duration, curve |-> curve]
              built == IF ctor = "new" THEN AnimatorNew(animation, repeat, lens)
                       ELSE AnimatorNewWithDirection(animation, ctor, repeat, lens)
              self == WithOptionalId(built, id)
          IN  /\ animator' = (entity :> self)
              /\ transform' = (entity :> SpawnTransform)
              /\ last' = Op(IF ctor = "new" THEN "Animator::new"
                            ELSE "Animator::new_with_direction",
                            entity, 0, Playback(self.state, 0), SpawnTransform, 0, <<>>, 1, id)
    /\ UNCHANGED <<seqAnimator, events, panicked, elapsedTotal, grid, frame,
                   inventory, key, preview, placed>>

\* The ticks of a zero duration that leave a finite state: Repeat::Once in a
\* frame of positive delta.  (A delta of zero makes progress_made 0.0 / 0.0,
\* and the Always and Mirrored arms compute inf % 1.0 and 1.0 - inf: these
\* leave NaN or an infinity in state.progress and in the Transform.)
FiniteTick(self, dt) ==
    self.animation.duration = ZeroDuration /\ ~self.state.completed =>
        self.repeat = "Once" /\ dt > 0

\* animation_tick_system over Animators of any duration.
animation_tick_system_of_any_duration ==
    /\ ~panicked
    /\ \E dt \in 0..MaxElapsed, entity \in DOMAIN animator :
          /\ FiniteTick(animator[entity], dt)
          /\ \E r \in {AnimatorTickAnyDuration(animator[entity], transform[entity], dt,
                                                entity, <<>>)} :
                /\ Abs(r.self.state.progress) <= ProgCap * One
                /\ animator' = [animator EXCEPT ![entity] = r.self]
                /\ transform' = [transform EXCEPT ![entity] = r.target]
                /\ events' = r.events
                /\ elapsedTotal' = Saturate(elapsedTotal + dt)
                /\ last' = Op("Animator::tick", entity, dt,
                              Playback(animator[entity].state, 0), transform[entity],
                              r.ret, r.calls, last.steps, last.with_id)
    /\ UNCHANGED <<seqAnimator, panicked, grid, frame,
                   inventory, key, preview, placed>>

ZeroDurationNext ==
    \/ SpawnAnimatorOfAnyDuration
    \/ animation_tick_system_of_any_duration

ZeroDurationSpec == Init /\ [][ZeroDurationNext]_vars

\* ------------------------------------------------------- grid translation

\* The coordinates of the model's points: both signs of every magnitude, the
\* two zeros included.
Coords == {F32(neg, mag) : neg \in BOOLEAN, mag \in 0..MaxCoord}

GridInit ==
    /\ animator = NoComponent
    /\ seqAnimator = NoComponent
    /\ transform = NoComponent
    /\ events = <<>>
    /\ panicked = FALSE
    /\ elapsedTotal = 0
    /\ last = Op("init", 0, 0, NoPlayback, SpawnTransform, 0, <<>>, 0, None)
    /\ \E x \in Coords, y \in Coords, grid_size \in 1..MaxGrid :
          grid = GridQuery(<<x, y>>, grid_size)
    /\ frame = NoFrame
    /\ inventory = InventoryDefault
    /\ key = {}
    /\ preview = NoComponent
    /\ placed = <<>>

\* let grid_coord = translation.as_grid_coord(grid_size);
\* let grid_translation_found = grid_coord.translation(grid_size);
find_grid_coord ==
    /\ grid.grid_translation_found = None
    /\ LET grid_coord == as_grid_coord(grid.translation, grid.grid_size)
       IN  grid' = [grid EXCEPT !.grid_translation_found =
                                   Some(translation(grid_coord, grid.grid_size))]
    /\ UNCHANGED <<animator, seqAnimator, transform, events, panicked, elapsedTotal, last,
                   frame,
                   inventory, key, preview, placed>>

GridNext == find_grid_coord

GridSpec == GridInit /\ [][GridNext]_vars

\* --------------------------------------------------- the inventory systems

\* The primary window is a square of 2 * MaxCoord halves; GridSettings::size.
window_w == F32(FALSE, 2 * MaxCoord)

window_h == F32(FALSE, 2 * MaxCoord)

grid_size == MaxGrid

\* Window::cursor_position: no cursor, or the cursor at the window's corner.
Cursors == {None, Some(<<F32(FALSE, 0), F32(FALSE, 0)>>)}

\* The startup schedules have run: the item prototypes are spawned.
Started == preview # NoComponent

\* PostStartup: the two item prototypes, hidden at the origin, and their
\* items in the slots 1 and 2.
spawn_item_prototypes ==
    /\ ~panicked
    /\ ~Started
    /\ preview' = [code \in {1, 2} |-> Preview("Hidden", <<0, 0>>)]
    /\ inventory' = put_item(put_item(inventory, 1, Item(1)), 2, Item(2))
    /\ UNCHANGED <<animator, seqAnimator, transform, events, panicked, elapsedTotal, last,
                   grid, frame, key, placed>>

\* Input<KeyCode>: a key goes down or comes up, at most MaxPressed are down.
keyboard_input ==
    /\ ~panicked
    /\ Started
    /\ \E keycode \in KeyCodes :
          /\ key' = IF keycode \in key THEN key \ {keycode} ELSE key \cup {keycode}
          /\ Cardinality(key') <= MaxPressed
    /\ UNCHANGED <<animator, seqAnimator, transform, events, panicked, elapsedTotal, last,
                   grid, frame, inventory, preview, placed>>

\* Update: select_item
select_item ==
    /\ ~panicked
    /\ Started
    /\ inventory' = SelectPressed(inventory, key, 1)
    /\ UNCHANGED <<animator, seqAnimator, transform, events, panicked, elapsedTotal, last,
                   grid, frame, key, preview, placed>>

\* Update: show_selected_item.  Every preview is hidden but the one of the
\* selected item, which is moved to the grid cell under the cursor.
show_selected_item ==
    /\ ~panicked
    /\ Started
    /\ \E cursor \in Cursors :
       \E selected \in {selected_item(inventory)} :
          IF selected.panics
          THEN /\ panicked' = TRUE
               /\ UNCHANGED preview
          ELSE /\ preview' =
                     [item_code \in DOMAIN preview |->
                         IF selected.value # None /\ item_code = selected.value[1].code
                         THEN Preview("Visible",
                                      IF cursor # None
                                      THEN translation(
                                               as_grid_coord(
                                                   cursor_to_window_coord(cursor[1], window_h,
                                                                          window_w),
                                                   grid_size),
                                               grid_size)
                                      ELSE preview[item_code].translation)
                         ELSE Preview("Hidden", preview[item_code].translation)]
               /\ UNCHANGED panicked
    /\ UNCHANGED <<animator, seqAnimator, transform, events, elapsedTotal, last,
                   grid, frame, inventory, key, placed>>

\* Update: place_selected_item when the left button was just pressed; it
\* returns early when nothing is selected or the slot is empty.
place_selected_item ==
    /\ ~panicked
    /\ Started
    /\ Len(placed) < MaxPlaced
    /\ \E selected \in {selected_item(inventory)} :
          IF selected.panics
          THEN /\ panicked' = TRUE
               /\ UNCHANGED placed
          ELSE /\ selected.value # None
               /\ selected.value[1].code \in DOMAIN preview
               /\ placed' = Append(placed,
                                   Placed(selected.value[1].code,
                                          preview[selected.value[1].code].translation))
               /\ UNCHANGED panicked
    /\ UNCHANGED <<animator, seqAnimator, transform, events, elapsedTotal, last,
                   grid, frame, inventory, key, preview>>

InventoryNext ==
    \/ spawn_item_prototypes
    \/ keyboard_input
    \/ select_item
    \/ show_selected_item
    \/ place_selected_item

InventorySpec == Init /\ [][InventoryNext]_vars

\* ------------------------------------------------ a frame of the tick systems

\* The lens type TLens of a SequenceAnimator<TLens>: all its Animation steps
\* hold a lens of that type.
SequenceLens(self) == self.seq[1].lens.field

\* The entities the query of a system yields: those with a Transform and an
\* Animator<TLens>, or a SequenceAnimator<TLens>, of the system's lens type.
Query(system) ==
    IF system.name = "animation_tick_system"
    THEN {e \in DOMAIN animator : animator[e].lens.field = system.lens}
    ELSE {e \in DOMAIN seqAnimator : SequenceLens(seqAnimator[e]) = system.lens}

OrdersWithRepetition(S) == [1..Cardinality(S) -> S]

\* entities.iter_mut(): the query yields each of its entities once, in an
\* order the caller does not choose.
Orders(S) == {q \in [1..Cardinality(S) -> S] : \A i, j \in DOMAIN q : q[i] = q[j] => i = j}

\* The animated entities of a world like spawn_initial's: entity 1 has a
\* SequenceAnimator<TransformTranslationLens> of an Animation, a Delay and an
\* Animation and an Animator<TransformScaleLens>, as the sprite of
\* spawn_initial has; entity 2 has a SequenceAnimator<TransformTranslationLens>
\* of a Delay and an Animation.
SpawnAnimatedEntities ==
    /\ ~panicked
    /\ DOMAIN transform = {}
    /\ \E repeat \in Repeats, scaleRepeat \in Repeats, id \in OptionalIds :
          LET move == AnimationStep(Min(Durations), Linear,
                                    TransformTranslationLens(<<0, 0, 0>>, <<2, 1, 0>>))
              wait == DelayStep(Min(Durations))
              moveOn == AnimationStep(Max(Durations), Step(One \div 2),
                                      TransformTranslationLens(<<2, 1, 0>>, <<4, 1, 0>>))
              grow == [duration |-> Max(Durations), curve |-> Linear]
          IN  /\ seqAnimator' =
                    (1 :> WithOptionalId(SequenceAnimatorNew(<<move, wait, moveOn>>, repeat), id))
                    @@ (2 :> SequenceAnimatorNew(<<wait, move>>, repeat))
              /\ animator' =
                    (1 :> AnimatorNew(grow, scaleRepeat,
                                      TransformScaleLens(<<1, 1, 1>>, <<2, 2, 1>>)))
              /\ transform' = [e \in Entities |-> SpawnTransform]
    /\ UNCHANGED <<events, panicked, elapsedTotal, last, grid, frame,
                   inventory, key, preview, placed>>

\* No frame is under way.
BetweenFrames == frame.todo = {} /\ frame.running = None

\* A frame begins: Time gets its delta and every system of the Update
\* schedule is due.  `events` holds the events sent during the frame.
BeginFrame ==
    /\ DOMAIN transform # {}
    /\ BetweenFrames
    /\ \E dt \in 0..MaxElapsed :
          frame' = Frame(dt, Systems, None, <<>>, <<>>,
                         World(animator, seqAnimator, transform))
    /\ events' = <<>>
    /\ UNCHANGED <<animator, seqAnimator, transform, panicked, elapsedTotal, last, grid,
                   inventory, key, preview, placed>>

\* The schedule runs one of the due systems.  All four take the Transforms
\* and the Events mutably, so no two of them run at once; nothing orders
\* them.  The system's query starts to yield.
RunSystem ==
    /\ frame.running = None
    /\ \E system \in frame.todo :
          \E queue \in Orders(Query(system)) :
             frame' = [frame EXCEPT !.todo = @ \ {system},
                                    !.running = IF queue = <<>> THEN None ELSE Some(system),
                                    !.queue = queue]
    /\ UNCHANGED <<animator, seqAnimator, transform, events, panicked, elapsedTotal, last,
                   grid,
                   inventory, key, preview, placed>>

\* The frame after a turn of the running system's loop on the head of its
\* queue, which sent the given number of events.
AfterTurn(sent) ==
    [frame EXCEPT !.queue = Tail(@),
                  !.running = IF Tail(frame.queue) = <<>> THEN None ELSE @,
                  !.log = Append(@, Run(frame.running[1], Head(frame.queue), frame.dt, sent))]

\* One turn of the loop of animation_tick_system:
\* animator.tick(&mut component, time.delta_seconds(), entity, &mut events)
AnimatorTurn ==
    /\ frame.running # None
    /\ frame.running[1].name = "animation_tick_system"
    /\ LET entity == Head(frame.queue)
       IN  \E r \in {AnimatorTick(animator[entity], transform[entity], frame.dt, entity,
                                    events)} :
              /\ Abs(r.self.state.progress) <= ProgCap * One
              /\ animator' = [animator EXCEPT ![entity] = r.self]
              /\ transform' = [transform EXCEPT ![entity] = r.target]
              /\ events' = r.events
              /\ frame' = AfterTurn(Len(r.events) - Len(events))
    /\ UNCHANGED <<seqAnimator, panicked, elapsedTotal, last, grid,
                   inventory, key, preview, placed>>

\* One turn of the loop of animation_sequence_tick_system.
SequenceAnimatorTurn ==
    /\ frame.running # None
    /\ frame.running[1].name = "animation_sequence_tick_system"
    /\ LET entity == Head(frame.queue)
       IN  \E r \in {SequenceAnimatorTick(seqAnimator[entity], transform[entity], frame.dt,
                                            entity, events, <<>>)} :
              /\ seqAnimator' = [seqAnimator EXCEPT ![entity] = r.self]
              /\ transform' = [transform EXCEPT ![entity] = r.target]
              /\ events' = r.events
              /\ frame' = AfterTurn(Len(r.events) - Len(events))
    /\ UNCHANGED <<animator, panicked, elapsedTotal, last, grid,
                   inventory, key, preview, placed>>

FrameNext ==
    \/ SpawnAnimatedEntities
    \/ BeginFrame
    \/ RunSystem
    \/ AnimatorTurn
    \/ SequenceAnimatorTurn

FrameSpec == Init /\ [][FrameNext]_vars

\* ------------------------------------------------------- sanity of the model

\* Every division of the fixed-point arithmetic is exact: the progress of a
\* step is a whole multiple of One / duration.
Exact ==
    /\ \A e \in DOMAIN animator :
          (animator[e].state.progress * animator[e].animation.duration) % One = 0
    /\ \A e \in DOMAIN seqAnimator :
          seqAnimator[e].seq # <<>> /\ seqAnimator[e].current >= 0 =>
             (seqAnimator[e].state.progress * CurrentStep(seqAnimator[e]).duration) % One = 0

\* ----------------------------------------------------------------- claims

AnimatorTicked == last.op = "Animator::tick"

SequenceTicked == last.op = "SequenceAnimator::tick"

\* The playback state of the component of entity e, in the shape of last.pre.
AnimatorPlayback(e) == Playback(animator[e].state, 0)

SequencePlayback(e) == Playback(seqAnimator[e].state, seqAnimator[e].current)

\* C1: a Repeat::Once, Forward Animator of duration D that started at progress
\* 0 is not completed and has progress T / D while the time T ticked so far is
\* at most D; once T is past D it is completed with progress exactly 1.0; the
\* tick that takes T past D sends exactly one event, with animation_id 0, and
\* no other tick sends any.
C1_OnceForwardCompletesPastDuration ==
    \A e \in DOMAIN animator :
        LET a == animator[e]
            D == a.animation.duration
        IN  a.repeat = "Once" /\ a.state.direction = "Forward" =>
              /\ elapsedTotal <= D =>
                    /\ ~a.state.completed
                    /\ a.state.progress * D = elapsedTotal * One
              /\ elapsedTotal > D =>
                    /\ a.state.completed
                    /\ a.state.progress = One
              /\ AnimatorTicked =>
                    IF ~last.pre.completed /\ elapsedTotal > D
                    THEN /\ Len(events) = 1
                         /\ events[1].animation_id = 0
                         /\ last.ret = One
                    ELSE events = <<>>

\* The scenario of C1: D = 2 s, a tick of 1.0 s left progress 0.5 and the
\* animator running, and the tick of 1.5 s has completed it with one event.
C1_Witness ==
    \E e \in DOMAIN animator :
        /\ animator[e].repeat = "Once"
        /\ animator[e].animation.duration = 4
        /\ animator[e].animation.curve = Linear
        /\ AnimatorTicked
        /\ last.elapsed = 3
        /\ last.pre = [completed |-> FALSE, direction |-> "Forward",
                       progress |-> One \div 2, current |-> 0]
        /\ animator[e].state.completed
        /\ animator[e].state.progress = One
        /\ Len(events) = 1

\* C2: a tick of a completed Animator or SequenceAnimator leaves completed,
\* progress, direction and current as they were, does not call the lens,
\* leaves the target alone and sends no event; a completed Animator's tick
\* returns 1.0 when Forward and 0.0 when Backward, which is also what the
\* completing tick returned.
C2_CompletionIsFixedPoint ==
    /\ \A e \in DOMAIN animator :
          AnimatorTicked =>
             /\ last.pre.completed =>
                   /\ AnimatorPlayback(e) = last.pre
                   /\ transform[e] = last.preTarget
                   /\ events = <<>>
                   /\ \A k \in DOMAIN last.calls : last.calls[k].lensIn = <<>>
                   /\ last.ret = (IF last.pre.direction = "Forward" THEN One ELSE 0)
             /\ ~last.pre.completed /\ animator[e].state.completed =>
                   last.ret = (IF animator[e].state.direction = "Forward" THEN One ELSE 0)
    /\ \A e \in DOMAIN seqAnimator :
          SequenceTicked /\ last.pre.completed =>
             /\ SequencePlayback(e) = last.pre
             /\ transform[e] = last.preTarget
             /\ events = <<>>
             /\ \A k \in DOMAIN last.calls : last.calls[k].lensIn = <<>>

\* A completed Backward Animator, whose target the completing tick has moved,
\* has been ticked again with a positive elapsed time.
C2_Witness ==
    \E e \in DOMAIN animator :
        /\ AnimatorTicked
        /\ last.pre.completed
        /\ last.pre.direction = "Backward"
        /\ last.elapsed > 0
        /\ last.ret = 0
        /\ transform[e] # SpawnTransform

\* C3: the stored progress of a Repeat::Always Animator is within [0,1] after
\* every tick.
C3_AlwaysProgressInUnitInterval ==
    \A e \in DOMAIN animator :
        animator[e].repeat = "Always" /\ AnimatorTicked =>
            /\ 0 <= animator[e].state.progress
            /\ animator[e].state.progress <= One

\* C4: in a tick of a Repeat::Mirrored Animator whose integrated progress q
\* (the progress it found plus or minus elapsed / duration) is above 1.0 the
\* direction flips once and the stored progress is 1.0 - (q - 1.0); below 0.0
\* the direction flips once and the stored progress is 0.0 - q; within [0,1]
\* the direction is unchanged and q is stored.
C4_MirroredFlipsAndReflects ==
    \A e \in DOMAIN animator :
        animator[e].repeat = "Mirrored" /\ AnimatorTicked =>
            LET q == last.calls[1].integrated
                now == animator[e].state
            IN  /\ (q - last.pre.progress) * animator[e].animation.duration
                      = factor(last.pre.direction) * last.elapsed * One
                /\ q > One => /\ now.direction = Not(last.pre.direction)
                              /\ now.progress = One - (q - One)
                /\ q < 0 => /\ now.direction = Not(last.pre.direction)
                            /\ now.progress = 0 - q
                /\ 0 <= q /\ q <= One => /\ now.direction = last.pre.direction
                                         /\ now.progress = q

\* A Forward Mirrored Animator has overshot 1.0 by 0.25 and now runs Backward
\* from 0.75.
C4_Witness ==
    \E e \in DOMAIN animator :
        /\ animator[e].repeat = "Mirrored"
        /\ AnimatorTicked
        /\ last.pre.direction = "Forward"
        /\ last.calls[1].integrated = One + 1
        /\ animator[e].state.direction = "Backward"
        /\ animator[e].state.progress = One - 1

\* The call of the latest tick with number k crossed a boundary of its step.
Crossed(k) ==
    /\ ~last.calls[k].skipped
    /\ (last.calls[k].integrated > One \/ last.calls[k].integrated < 0)

\* The overshoot of call k, as a progress.
Excess(k) ==
    IF last.calls[k].integrated > One THEN last.calls[k].integrated - One
    ELSE 0 - last.calls[k].integrated

\* C5: when a call of SequenceAnimator::tick pushes its step past the boundary
\* by an excess e, the same tick makes a further call whose elapsed time is
\* e * duration of the step that overshot, and unless the sequence has
\* completed that call integrates from the entry point of the step it finds,
\* at that step's own duration.  Two 1 s Animation steps, Forward, step 0 at
\* progress 0.0, one tick of 1.5 s: one event for step 0, current = 1,
\* progress = 0.5.
C5_OvertimeIsConserved ==
    \A e \in DOMAIN seqAnimator :
        SequenceTicked =>
            LET seq == seqAnimator[e].seq
                calls == last.calls
            IN  /\ \A k \in DOMAIN calls :
                      Crossed(k) =>
                         /\ k + 1 \in DOMAIN calls
                         /\ calls[k + 1].elapsed * One
                               = Excess(k) * seq[calls[k].current + 1].duration
                         /\ ~calls[k + 1].skipped =>
                               (calls[k + 1].integrated - start_point(calls[k + 1].direction))
                                   * seq[calls[k + 1].current + 1].duration
                               = factor(calls[k + 1].direction) * calls[k + 1].elapsed * One
                /\ ( /\ Len(seq) = 2
                     /\ \A i \in 1..2 : seq[i].kind = "Animation" /\ seq[i].duration = 2
                     /\ last.pre = [completed |-> FALSE, direction |-> "Forward",
                                    progress |-> 0, current |-> 0]
                     /\ last.elapsed = 3 )
                   => /\ seqAnimator[e].current = 1
                      /\ seqAnimator[e].state.progress * 2 = One
                      /\ Len(events) = 1
                      /\ events[1].animation_id = 0

\* The scenario of C5 has run: two 1 s Animation steps, a first tick of 1.5 s.
C5_Witness ==
    \E e \in DOMAIN seqAnimator :
        /\ SequenceTicked
        /\ Len(seqAnimator[e].seq) = 2
        /\ \A i \in 1..2 : /\ seqAnimator[e].seq[i].kind = "Animation"
                           /\ seqAnimator[e].seq[i].duration = 2
        /\ last.pre = [completed |-> FALSE, direction |-> "Forward",
                       progress |-> 0, current |-> 0]
        /\ last.elapsed = 3
        /\ Len(last.calls) = 2
        /\ last.calls[2].elapsed = 1
        /\ seqAnimator[e].current = 1

\* C6: SequenceAnimator::new with an empty step list gives completed = true,
\* and a tick of that animator changes no state, leaves the target alone,
\* calls no lens and sends no event, whatever the elapsed time and the repeat
\* policy.
C6_EmptySequenceIsCompleted ==
    \A e \in DOMAIN seqAnimator :
        LET a == seqAnimator[e]
        IN  /\ last.op = "SequenceAnimator::new" /\ last.steps = 0 =>
                  /\ a.seq = <<>>
                  /\ a.state.completed
            /\ a.seq = <<>> /\ a.current = 0 /\ a.state.direction = "Forward"
               /\ SequenceTicked =>
                  /\ a.state.completed
                  /\ SequencePlayback(e) = last.pre
                  /\ transform[e] = last.preTarget
                  /\ events = <<>>
                  /\ \A k \in DOMAIN last.calls :
                        last.calls[k].skipped /\ last.calls[k].lensIn = <<>>

\* An empty Repeat::Always sequence has been ticked with a positive elapsed time.
C6_Witness ==
    \E e \in DOMAIN seqAnimator :
        /\ seqAnimator[e].seq = <<>>
        /\ seqAnimator[e].repeat = "Always"
        /\ seqAnimator[e].state.direction = "Forward"
        /\ SequenceTicked
        /\ last.elapsed > 0

\* C7: SequenceAnimator::new_with_direction with an empty step list does not
\* panic, for either direction, and the animator it returns is completed.
C7_EmptyNewWithDirectionSucceeds ==
    last.op = "SequenceAnimator::new_with_direction" /\ last.steps = 0 =>
        /\ ~panicked
        /\ \E e \in DOMAIN seqAnimator : seqAnimator[e].state.completed

\* The curve call k of the latest tick evaluated.
CurveOfCall(k) ==
    IF AnimatorTicked THEN animator[last.entity].animation.curve
    ELSE seqAnimator[last.entity].seq[last.calls[k].current + 1].curve

\* C8: whenever a tick evaluates a Step(cutoff) curve, on any progress inside
\* or outside [0,1], the value handed to the lens is 1.0 if the progress is at
\* most the cutoff and 0.0 if it is greater.
C8_StepCurveCutoff ==
    AnimatorTicked \/ SequenceTicked =>
        \A k \in DOMAIN last.calls :
            LET c == last.calls[k]
            IN  c.curveIn # <<>> /\ CurveOfCall(k).kind = "Step" =>
                   /\ Len(c.curveIn) = 1 /\ Len(c.lensIn) = 1
                   /\ c.curveIn[1] <= CurveOfCall(k).cutoff => c.lensIn[1] = One
                   /\ c.curveIn[1] > CurveOfCall(k).cutoff => c.lensIn[1] = 0

\* A Step(0.5) curve has been evaluated at exactly 0.5 and gave 1.0.
C8_Witness ==
    /\ AnimatorTicked
    /\ ~last.calls[1].skipped
    /\ CurveOfCall(1) = Step(One \div 2)
    /\ last.calls[1].curveIn = <<One \div 2>>
    /\ last.calls[1].lensIn = <<One>>

\* The calls of the latest tick that crossed a boundary, in order.
CrossingCalls == SelectSeq(last.calls, LAMBDA c :
                    ~c.skipped /\ (c.integrated > One \/ c.integrated < 0))

\* C9: the events of a SequenceAnimator tick are, in order, one per call whose
\* step progress went above 1.0 or below 0.0, each with the index that step
\* had when the call began; Animation and Delay steps alike.
C9_OneEventPerCrossing ==
    \A e \in DOMAIN seqAnimator :
        SequenceTicked =>
            /\ Len(events) = Len(CrossingCalls)
            /\ \A j \in DOMAIN events :
                  events[j].animation_id = CrossingCalls[j].current

\* One tick has finished step 0 and then the Delay at step 1, with an event each.
C9_Witness ==
    \E e \in DOMAIN seqAnimator :
        /\ SequenceTicked
        /\ Len(events) = 2
        /\ events[1].animation_id = 0
        /\ events[2].animation_id = 1
        /\ seqAnimator[e].seq[2].kind = "Delay"
        /\ seqAnimator[e].repeat = "Once"

\* C10: every event of a tick carries the entity the tick was called with,
\* which is the entity that owns the animator, and the animator's id: None
\* when with_id was not called, Some(id) after with_id(id).
C10_EventAttribution ==
    AnimatorTicked \/ SequenceTicked =>
        /\ last.entity \in DOMAIN animator \cup DOMAIN seqAnimator
        /\ \A j \in DOMAIN events :
              /\ events[j].entity = last.entity
              /\ events[j].animator_id = last.with_id

\* An animator of entity 2 built with with_id(7) has sent an event.
C10_Witness ==
    /\ AnimatorTicked
    /\ events # <<>>
    /\ events[1].entity = 2
    /\ events[1].animator_id = Some(7)
    /\ last.with_id = Some(7)

\* The duration of the step call k of the latest SequenceAnimator tick ran on.
StepDurationOfCall(e, k) == seqAnimator[e].seq[last.calls[k].current + 1].duration

\* The index of the last step of the sequence of entity e.
LastIndex(e) == Len(seqAnimator[e].seq) - 1

\* Call k crossed the end of the last step going Forward, or the start of
\* step 0 going Backward: the end step in the direction of travel.
CrossedEnd(e, k) ==
    /\ Crossed(k)
    /\ \/ last.calls[k].direction = "Forward" /\ last.calls[k].current = LastIndex(e)
       \/ last.calls[k].direction = "Backward" /\ last.calls[k].current = 0

\* C14: the step index of a SequenceAnimator built from a non-empty list is
\* always a valid index, in the stored state and at the start of every call
\* of a tick (where the step list is indexed).
C14_CurrentStaysInRange ==
    \A e \in DOMAIN seqAnimator :
        seqAnimator[e].seq # <<>> =>
            /\ 0 <= seqAnimator[e].current
            /\ seqAnimator[e].current < Len(seqAnimator[e].seq)
            /\ SequenceTicked =>
                  \A k \in DOMAIN last.calls :
                      /\ 0 <= last.calls[k].current
                      /\ last.calls[k].current < Len(seqAnimator[e].seq)

\* One tick has taken a Repeat::Always sequence of two steps from step 0 to
\* step 1 and round to step 0 again.
C14_Witness ==
    \E e \in DOMAIN seqAnimator :
        /\ SequenceTicked
        /\ Len(seqAnimator[e].seq) = 2
        /\ seqAnimator[e].repeat = "Always"
        /\ Len(last.calls) >= 3
        /\ last.calls[1].current = 0
        /\ last.calls[2].current = 1
        /\ last.calls[3].current = 0

\* C15: a SequenceAnimator tick makes finitely many calls: a further call is
\* made only after a boundary crossing, a call that finds the animator
\* completed is the last, every call after the first that crosses has used up
\* the full duration of its step (its overtime is its elapsed time less that
\* duration), and so the number of calls is at most 2 + elapsed / shortest
\* duration.
C15_TickTerminates ==
    \A e \in DOMAIN seqAnimator :
        SequenceTicked =>
            LET calls == last.calls
            IN  /\ Len(calls) >= 1
                /\ calls[1].elapsed = last.elapsed
                /\ \A k \in DOMAIN calls :
                      /\ k < Len(calls) => Crossed(k)
                      /\ calls[k].skipped => k = Len(calls)
                      /\ Crossed(k) => /\ k + 1 \in DOMAIN calls
                                       /\ calls[k + 1].elapsed = calls[k].overtime
                                       /\ calls[k + 1].elapsed <= calls[k].elapsed
                      /\ k > 1 /\ Crossed(k) =>
                            /\ calls[k].elapsed > StepDurationOfCall(e, k)
                            /\ calls[k].overtime
                                  = calls[k].elapsed - StepDurationOfCall(e, k)
                /\ Len(calls) <= 2 + last.elapsed \div Min(Durations)

\* One tick of 2.5 s has run a Repeat::Always sequence through three calls.
C15_Witness ==
    \E e \in DOMAIN seqAnimator :
        /\ SequenceTicked
        /\ seqAnimator[e].repeat = "Always"
        /\ last.elapsed = 5
        /\ Len(last.calls) = 3
        /\ Crossed(2)
        /\ ~last.calls[3].skipped

\* C16: when a SequenceAnimator tick returns, the stored progress is within
\* [0,1] and the last call of the tick left no overshoot behind.
C16_NoOvershootAfterTick ==
    \A e \in DOMAIN seqAnimator :
        /\ 0 <= seqAnimator[e].state.progress
        /\ seqAnimator[e].state.progress <= One
        /\ SequenceTicked => ~Crossed(Len(last.calls))

\* A tick overshot its step and the overtime left the next step half way.
C16_Witness ==
    \E e \in DOMAIN seqAnimator :
        /\ SequenceTicked
        /\ Crossed(1)
        /\ last.calls[1].integrated > One
        /\ ~last.calls[2].skipped
        /\ seqAnimator[e].state.progress * 2 = One

\* C17: in a Repeat::Once sequence the call that crosses the end of the last
\* step going Forward leaves completed = true, progress = 1.0 and current on
\* the last step; the call that crosses the start of step 0 going Backward
\* leaves completed = true and progress = 0.0; the call made for the overtime
\* returns at once, so the tick ends in that state with no further event and
\* no further lens call.
C17_OnceCompletesAtTheEnd ==
    \A e \in DOMAIN seqAnimator :
        seqAnimator[e].repeat = "Once" /\ SequenceTicked =>
            \A k \in DOMAIN last.calls :
                CrossedEnd(e, k) =>
                    /\ seqAnimator[e].state.completed
                    /\ seqAnimator[e].state.direction = last.calls[k].direction
                    /\ seqAnimator[e].current = last.calls[k].current
                    /\ seqAnimator[e].state.progress
                          = (IF last.calls[k].direction = "Forward" THEN One ELSE 0)
                    /\ Len(last.calls) = k + 1
                    /\ last.calls[k + 1].skipped
                    /\ last.calls[k + 1].elapsed > 0
                    /\ last.calls[k + 1].lensIn = <<>>
                    /\ Len(events) = k
                    /\ events[k].animation_id = last.calls[k].current

\* A Backward Repeat::Once sequence of two steps has completed at step 0.
C17_Witness ==
    \E e \in DOMAIN seqAnimator :
        /\ SequenceTicked
        /\ seqAnimator[e].repeat = "Once"
        /\ Len(seqAnimator[e].seq) = 2
        /\ ~last.pre.completed
        /\ seqAnimator[e].state.completed
        /\ seqAnimator[e].state.direction = "Backward"
        /\ seqAnimator[e].current = 0
        /\ seqAnimator[e].state.progress = 0

\* C18: in a Repeat::Always sequence the call after a Forward crossing of the
\* last step finds current = 0 and progress = 0.0, the call after a Backward
\* crossing of step 0 finds current = last index and progress = 1.0; no call
\* and no tick changes the direction, and completed is never set.
C18_AlwaysWrapsAround ==
    \A e \in DOMAIN seqAnimator :
        seqAnimator[e].repeat = "Always" /\ seqAnimator[e].seq # <<>> =>
            /\ ~seqAnimator[e].state.completed
            /\ SequenceTicked =>
                  /\ seqAnimator[e].state.direction = last.pre.direction
                  /\ \A k \in DOMAIN last.calls :
                        /\ last.calls[k].direction = last.pre.direction
                        /\ ~last.calls[k].skipped
                        /\ CrossedEnd(e, k) =>
                              IF last.calls[k].direction = "Forward"
                              THEN /\ last.calls[k + 1].current = 0
                                   /\ last.calls[k + 1].entry = 0
                              ELSE /\ last.calls[k + 1].current = LastIndex(e)
                                   /\ last.calls[k + 1].entry = One

\* A Backward Repeat::Always sequence of two steps has wrapped from step 0 to
\* step 1.
C18_Witness ==
    \E e \in DOMAIN seqAnimator :
        /\ SequenceTicked
        /\ seqAnimator[e].repeat = "Always"
        /\ Len(seqAnimator[e].seq) = 2
        /\ \E k \in DOMAIN last.calls :
              /\ CrossedEnd(e, k)
              /\ last.calls[k].direction = "Backward"
              /\ last.calls[k + 1].current = 1
              /\ last.calls[k + 1].entry = One

\* C19: in a Repeat::Mirrored sequence the call after a Forward crossing of
\* the last step finds the same step, direction Backward and progress 1.0; the
\* call after a Backward crossing of step 0 finds step 0, direction Forward
\* and progress 0.0; between two calls the direction changes exactly at these
\* crossings, the tick starts in the stored direction and stores the direction
\* of its last call, and completed is never set.
C19_MirroredPingPong ==
    \A e \in DOMAIN seqAnimator :
        seqAnimator[e].repeat = "Mirrored" /\ seqAnimator[e].seq # <<>> =>
            /\ ~seqAnimator[e].state.completed
            /\ SequenceTicked =>
                  /\ last.calls[1].direction = last.pre.direction
                  /\ seqAnimator[e].state.direction
                        = last.calls[Len(last.calls)].direction
                  /\ \A k \in DOMAIN last.calls :
                        /\ ~last.calls[k].skipped
                        /\ k < Len(last.calls) =>
                              IF CrossedEnd(e, k)
                              THEN /\ last.calls[k + 1].direction
                                         = Not(last.calls[k].direction)
                                   /\ last.calls[k + 1].current = last.calls[k].current
                                   /\ last.calls[k + 1].entry
                                         = (IF last.calls[k].direction = "Forward"
                                            THEN One ELSE 0)
                              ELSE last.calls[k + 1].direction = last.calls[k].direction

\* A Mirrored sequence of two steps has turned round at the end of step 1 and
\* gone back into step 0 in one tick.
C19_Witness ==
    \E e \in DOMAIN seqAnimator :
        /\ SequenceTicked
        /\ seqAnimator[e].repeat = "Mirrored"
        /\ Len(seqAnimator[e].seq) = 2
        /\ Len(last.calls) = 3
        /\ last.calls[1].direction = "Forward"
        /\ last.calls[1].current = 1
        /\ last.calls[2].direction = "Backward"
        /\ last.calls[2].current = 1
        /\ last.calls[3].current = 0
        /\ seqAnimator[e].state.direction = "Backward"

\* C20: under every repeat policy, the call after a crossing of a step that is
\* not the end step in the direction of travel finds current moved by one in
\* that direction, the progress at the entry point of the direction (0.0
\* Forward, 1.0 Backward), the same direction, and the animator not completed.
C20_InnerStepAdvancesByOne ==
    \A e \in DOMAIN seqAnimator :
        SequenceTicked =>
            \A k \in DOMAIN last.calls :
                Crossed(k) /\ ~CrossedEnd(e, k) =>
                    /\ last.calls[k + 1].current
                          = last.calls[k].current + factor(last.calls[k].direction)
                    /\ last.calls[k + 1].entry = start_point(last.calls[k].direction)
                    /\ last.calls[k + 1].direction = last.calls[k].direction
                    /\ ~last.calls[k + 1].skipped
                    /\ ~seqAnimator[e].state.completed
                       \/ \E j \in DOMAIN last.calls : j > k /\ CrossedEnd(e, j)

\* A Mirrored sequence going Backward has moved from step 1 to step 0.
C20_Witness ==
    \E e \in DOMAIN seqAnimator :
        /\ SequenceTicked
        /\ seqAnimator[e].repeat = "Mirrored"
        /\ \E k \in DOMAIN last.calls :
              /\ Crossed(k)
              /\ last.calls[k].direction = "Backward"
              /\ last.calls[k].current = 1
              /\ last.calls[k + 1].current = 0
              /\ last.calls[k + 1].entry = One

\* The field of a Transform a lens writes.
LensField(lens, target) ==
    IF lens.field = "translation" THEN target.translation ELSE target.scale

\* The lens of the step call k of the latest tick ran on.
LensOfCall(k) ==
    IF AnimatorTicked THEN animator[last.entity].lens
    ELSE seqAnimator[last.entity].seq[last.calls[k].current + 1].lens

\* The calls of the latest tick that called a lens.
LensCalls == {k \in DOMAIN last.calls : last.calls[k].lensIn # <<>>}

\* C12: after a tick, the field of the target written by the last lens call
\* of the tick (TransformTranslationLens: translation, TransformScaleLens:
\* scale) is start + (end - start) * progress in each of its three components,
\* for the progress the lens was given, inside or outside [0,1]; progress 0.0
\* gives start and progress 1.0 gives end.
C12_LensInterpolatesLinearly ==
    (AnimatorTicked \/ SequenceTicked) /\ LensCalls # {} =>
        LET k == Max(LensCalls)
            lens == LensOfCall(k)
            p == last.calls[k].lensIn[1]
            written == LensField(lens, transform[last.entity])
        IN  /\ \A i \in 1..3 :
                  written[i] = lens.start[i] * One + (lens.end[i] - lens.start[i]) * p
            /\ p = 0 => \A i \in 1..3 : written[i] = lens.start[i] * One
            /\ p = One => \A i \in 1..3 : written[i] = lens.end[i] * One

\* A translation lens from (0,0,0) to (2,1,0) was given progress 1.5 and has
\* written (3,1.5,0), beyond its end.
C12_Witness ==
    /\ AnimatorTicked
    /\ LensCalls # {}
    /\ LensOfCall(1) = TransformTranslationLens(<<0, 0, 0>>, <<2, 1, 0>>)
    /\ last.calls[1].lensIn = <<One + One \div 2>>
    /\ transform[last.entity].translation[1] = 3 * One

\* C11: a zero duration is rejected at construction, so no Animator that was
\* constructed holds one and no call of tick divides the elapsed time by a
\* zero full_duration.
C11_ZeroDurationRejected ==
    /\ \A e \in DOMAIN animator : animator[e].animation.duration # ZeroDuration
    /\ AnimatorTicked /\ ~last.calls[1].skipped =>
           animator[last.entity].animation.duration # ZeroDuration

\* The centre of the cell of size g that holds the coordinate v, mirrored by
\* the sign of v, in halves: sign(v) * (floor(|v| / g) * g + g / 2), where a
\* coordinate of exactly 0 counts as positive.
CellCentre(v, g) ==
    LET sign == IF Value(v) < 0 THEN 0 - 1 ELSE 1
        magnitude == IF Value(v) < 0 THEN 0 - Value(v) ELSE Value(v)
    IN  sign * ((magnitude \div (2 * g)) * g * 2 + g)

\* C13: for every point p and grid size g >= 1, the translation found by
\* p.as_grid_coord(g).translation(g) is on each axis the centre of the cell
\* that holds p's coordinate, mirrored per quadrant, a coordinate of exactly 0
\* counting as positive.
C13_TranslationIsCellCentre ==
    grid.grid_translation_found # None =>
        \A i \in 1..2 :
            grid.grid_translation_found[1][i] = CellCentre(grid.translation[i], grid.grid_size)

\* C21: every call of SequenceAnimator::tick that runs on an Animation step
\* hands its curve the integrated progress clamped to [0,1], a value within
\* [0,1]; in the call where the step overshoots its boundary the curve gets
\* exactly 1.0 (above) or 0.0 (below), and the lens gets the curve's value
\* there.
C21_SequenceClampsBeforeCurve ==
    SequenceTicked =>
        \A k \in DOMAIN last.calls :
            LET c == last.calls[k]
            IN  c.curveIn # <<>> =>
                   /\ 0 <= c.curveIn[1] /\ c.curveIn[1] <= One
                   /\ c.integrated > One => c.curveIn[1] = One
                   /\ c.integrated < 0 => c.curveIn[1] = 0
                   /\ c.integrated >= 0 /\ c.integrated <= One => c.curveIn[1] = c.integrated
                   /\ c.lensIn = <<eval(CurveOfCall(k), c.curveIn[1])>>

\* A call on a Linear Animation step has integrated its progress to 1.5,
\* handed the curve and the lens 1.0, and sent the step's event.
C21_Witness ==
    /\ SequenceTicked
    /\ \E k \in DOMAIN last.calls :
          /\ ~last.calls[k].skipped
          /\ last.calls[k].curveIn = <<One>>
          /\ CurveOfCall(k) = Linear
          /\ last.calls[k].integrated = One + One \div 2
          /\ last.calls[k].lensIn = <<One>>
          /\ last.calls[k].sent = 1

\* The step call k of the latest SequenceAnimator tick ran on.
StepOfCall(k) == seqAnimator[last.entity].seq[last.calls[k].current + 1]

\* The calls of the latest tick that ran on a step (the others returned at
\* the completed test).
StepCalls == {k \in DOMAIN last.calls : ~last.calls[k].skipped}

\* C22: a SequenceAnimator tick all of whose calls run on Delay steps calls
\* neither curve nor lens and leaves the target as it found it; each of those
\* calls integrates progress by elapsed / duration in the direction of play,
\* and one that crosses a boundary sends one event carrying the index of the
\* Delay step, computes the overtime from the Delay's duration, and the
\* sequence moves on as next_animation says.
C22_DelayOccupiesTimeOnly ==
    SequenceTicked /\ (\A k \in StepCalls : StepOfCall(k).kind = "Delay") =>
        /\ transform[last.entity] = last.preTarget
        /\ \A k \in StepCalls :
              LET c == last.calls[k]
                  D == StepOfCall(k).duration
              IN  /\ c.curveIn = <<>> /\ c.lensIn = <<>>
                  /\ (c.integrated - c.entry) * D = c.elapsed * One * factor(c.direction)
                  /\ c.sent = (IF Crossed(k) THEN 1 ELSE 0)
                  /\ Crossed(k) => c.overtime * One = Excess(k) * D
        /\ Len(events) = Cardinality({k \in StepCalls : Crossed(k)})
        /\ \A j \in DOMAIN events :
              \E k \in StepCalls : Crossed(k) /\ events[j].animation_id = last.calls[k].current
        /\ \A k \in StepCalls :
              Crossed(k) /\ k + 1 \in StepCalls =>
                  \/ last.calls[k + 1].current # last.calls[k].current
                  \/ last.calls[k + 1].direction # last.calls[k].direction
                  \/ last.calls[k + 1].entry = start_point(last.calls[k].direction)

\* A Mirrored sequence of an Animation and a Delay whose target the Animation
\* has moved: a tick found it on the Delay, crossed the Delay's end with one
\* event for step 1, turned round and spent the overtime on the Delay again.
C22_Witness ==
    /\ SequenceTicked
    /\ Len(last.calls) = 2
    /\ \A k \in DOMAIN last.calls : ~last.calls[k].skipped /\ StepOfCall(k).kind = "Delay"
    /\ seqAnimator[last.entity].repeat = "Mirrored"
    /\ last.preTarget # SpawnTransform
    /\ Len(events) = 1
    /\ events[1].animation_id = 1
    /\ last.calls[2].direction = "Backward"
    /\ last.calls[2].elapsed > 0

\* C23: an Animator with Repeat::Always or Repeat::Mirrored is never
\* completed and none of its ticks sends an AnimationCompleted event; no step
\* changes the direction of a Repeat::Always Animator, which is therefore the
\* direction it was constructed with.
C23_RepeatingAnimatorNeverCompletes ==
    /\ [](\A e \in DOMAIN animator :
             animator[e].repeat \in {"Always", "Mirrored"} =>
                /\ ~animator[e].state.completed
                /\ AnimatorTicked => events = <<>> /\ last.calls[1].sent = 0)
    /\ [][\A e \in DOMAIN animator \cap DOMAIN animator' :
             animator[e].repeat = "Always" =>
                /\ animator'[e].repeat = "Always"
                /\ animator'[e].state.direction = animator[e].state.direction]_vars

\* A Repeat::Always Animator playing Backward has been taken below 0.0 by a
\* tick and wrapped round: it is not completed and still plays Backward.
C23_Witness ==
    /\ AnimatorTicked
    /\ animator[last.entity].repeat = "Always"
    /\ last.pre.direction = "Backward"
    /\ last.calls[1].integrated < 0
    /\ animator[last.entity].state.direction = "Backward"
    /\ animator[last.entity].state.progress > 0
    /\ ~animator[last.entity].state.completed
    /\ events = <<>>

\* The playback state C24 expects of a fresh animator of n steps (an Animator
\* has one) playing in a direction.
Fresh(direction, n) ==
    [completed |-> FALSE, direction |-> direction,
     progress |-> IF direction = "Forward" THEN 0 ELSE One,
     current |-> IF direction = "Forward" THEN 0 ELSE n - 1]

\* The latest tick is the first one that let time pass: the ticks before it,
\* if any, had an elapsed time of 0.
FirstTick == last.elapsed > 0 /\ last.elapsed = elapsedTotal /\ elapsedTotal < TotalCap

\* C24: `new` leaves an animator Forward at progress 0.0 (a sequence at step
\* 0); new_with_direction leaves it at the entry point of its direction,
\* Backward at progress 1.0 (a non-empty sequence at its last step); a
\* non-empty animator is not completed; and the first tick that lets time pass
\* finds that state and integrates progress to entry + elapsed / duration
\* when Forward, entry - elapsed / duration when Backward.
C24_FreshAnimatorStartsAtEntryPoint ==
    /\ \A e \in DOMAIN animator :
          /\ last.op = "Animator::new" => AnimatorPlayback(e) = Fresh("Forward", 1)
          /\ last.op = "Animator::new_with_direction" =>
                AnimatorPlayback(e) = Fresh(animator[e].state.direction, 1)
          /\ AnimatorTicked /\ FirstTick =>
                /\ last.pre = Fresh(last.pre.direction, 1)
                /\ last.calls[1].integrated * animator[e].animation.duration =
                      (IF last.pre.direction = "Forward"
                       THEN 0 + last.elapsed * One
                       ELSE One * animator[e].animation.duration - last.elapsed * One)
    /\ \A e \in DOMAIN seqAnimator :
          last.op = "SequenceAnimator::new" =>
             /\ seqAnimator[e].state.direction = "Forward"
             /\ seqAnimator[e].state.progress = 0
             /\ seqAnimator[e].current = 0
    /\ \A e \in DOMAIN seqAnimator :
          LET n == Len(seqAnimator[e].seq)
          IN  n >= 1 =>
                /\ last.op = "SequenceAnimator::new" => SequencePlayback(e) = Fresh("Forward", n)
                /\ last.op = "SequenceAnimator::new_with_direction" =>
                      SequencePlayback(e) = Fresh(seqAnimator[e].state.direction, n)
                /\ SequenceTicked /\ FirstTick =>
                      /\ last.pre = Fresh(last.pre.direction, n)
                      /\ last.calls[1].integrated * StepDurationOfCall(e, 1) =
                            (IF last.pre.direction = "Forward"
                             THEN 0 + last.elapsed * One
                             ELSE One * StepDurationOfCall(e, 1) - last.elapsed * One)

\* A sequence of two steps built by new_with_direction(Backward) has been
\* ticked for the first time, for half a second: the tick found it on step 1
\* at progress 1.0 and integrated downwards.
C24_Witness ==
    /\ SequenceTicked
    /\ FirstTick
    /\ last.elapsed = 1
    /\ Len(seqAnimator[last.entity].seq) = 2
    /\ last.pre = [completed |-> FALSE, direction |-> "Backward", progress |-> One, current |-> 1]
    /\ last.calls[1].integrated < One
    /\ seqAnimator[last.entity].state.progress < One

\* A frame has run to its end: every system of the schedule has run.
FrameDone == BetweenFrames /\ DOMAIN frame.start.transform # {}

\* The runs of a system on an entity in the frame's log.
RunsOf(system, e) ==
    {i \in DOMAIN frame.log : frame.log[i].system = system /\ frame.log[i].entity = e}

\* The number of events the first n runs of the frame sent.
RECURSIVE SentBy(_)
SentBy(n) == IF n = 0 THEN 0 ELSE SentBy(n - 1) + frame.log[n].sent

\* The id of the animator a run ticked.
IdOfRun(run) ==
    IF run.system.name = "animation_tick_system" THEN animator[run.entity].id
    ELSE seqAnimator[run.entity].id

\* C25: in a frame each system ticks each entity of its query once, never
\* twice, passing the frame's delta; the events of the frame are, in the order
\* of the runs, one contiguous block per run holding the events of that run's
\* animator (those of its overtime calls included); and a turn of a system's
\* loop changes no animator but the one it ticks, no Transform but that of
\* the entity it ticks, and none of the events sent before it.
C25_FrameTicksEachEntityOnce ==
    /\ [](/\ \A i \in DOMAIN frame.log : frame.log[i].elapsed = frame.dt
          /\ \A system \in Systems, e \in Entities :
                /\ Cardinality(RunsOf(system, e)) <= 1
                /\ FrameDone =>
                      Cardinality(RunsOf(system, e)) = (IF e \in Query(system) THEN 1 ELSE 0)
          /\ Len(events) = SentBy(Len(frame.log))
          /\ \A i \in DOMAIN frame.log :
                \A k \in (SentBy(i - 1) + 1)..SentBy(i) :
                    /\ events[k].entity = frame.log[i].entity
                    /\ events[k].animator_id = IdOfRun(frame.log[i]))
    /\ [][frame.running # None /\ frame'.log # frame.log =>
             LET ticked == Head(frame.queue)
                 system == frame.running[1]
             IN  /\ \A o \in Entities \ {ticked} :
                       /\ transform'[o] = transform[o]
                       /\ o \in DOMAIN animator => animator'[o] = animator[o]
                       /\ o \in DOMAIN seqAnimator => seqAnimator'[o] = seqAnimator[o]
                 /\ system.name = "animation_tick_system" => seqAnimator' = seqAnimator
                 /\ system.name = "animation_sequence_tick_system" => animator' = animator
                 /\ SubSeq(events', 1, Len(events)) = events]_vars

\* A frame has ended in which the sequence system ticked entity 2 before
\* entity 1: the tick of entity 2 cascaded over two steps and sent two events,
\* the tick of entity 1 sent its own after them, and the Animator of entity 1
\* was ticked as well.
C25_Witness ==
    /\ FrameDone
    /\ Len(frame.log) = 3
    /\ \E i, j \in DOMAIN frame.log :
          /\ i < j
          /\ frame.log[i].system.name = "animation_sequence_tick_system"
          /\ frame.log[j].system.name = "animation_sequence_tick_system"
          /\ frame.log[i].entity = 2 /\ frame.log[i].sent = 2
          /\ frame.log[j].entity = 1 /\ frame.log[j].sent >= 1
          /\ events[SentBy(i)].entity = 2
          /\ events[SentBy(j)].entity = 1
    /\ \E i \in DOMAIN frame.log : frame.log[i].system.name = "animation_tick_system"

\* Call k of the latest tick left the progress exactly on the boundary its
\* direction plays towards.
LandedOnBoundary(k) ==
    /\ ~last.calls[k].skipped
    /\ last.calls[k].integrated = (IF last.calls[k].direction = "Forward" THEN One ELSE 0)

\* C26, the boundary: a Repeat::Once Animator whose tick lands exactly on the
\* boundary is not completed and sends no event, and a SequenceAnimator call
\* that lands exactly on the boundary sends no event and stays on its step;
\* from there a tick with a positive elapsed time completes the Animator, or
\* moves the sequence on, with the event.
BoundaryIsNotACrossing ==
    /\ \A e \in DOMAIN animator :
          AnimatorTicked /\ animator[e].repeat = "Once" =>
             /\ LandedOnBoundary(1) =>
                   /\ ~animator[e].state.completed
                   /\ animator[e].state.progress = last.calls[1].integrated
                   /\ events = <<>>
             /\ /\ ~last.pre.completed
                /\ last.pre.progress = (IF last.pre.direction = "Forward" THEN One ELSE 0)
                /\ last.elapsed > 0
                => animator[e].state.completed /\ Len(events) = 1
    /\ \A e \in DOMAIN seqAnimator :
          SequenceTicked =>
             /\ \A k \in DOMAIN last.calls :
                   LandedOnBoundary(k) =>
                      /\ k = Len(last.calls)
                      /\ last.calls[k].sent = 0
                      /\ seqAnimator[e].current = last.calls[k].current
                      /\ seqAnimator[e].state.direction = last.calls[k].direction
                      /\ seqAnimator[e].state.progress = last.calls[k].integrated
             /\ /\ ~last.pre.completed
                /\ last.pre.progress = (IF last.pre.direction = "Forward" THEN One ELSE 0)
                /\ last.elapsed > 0
                => /\ last.calls[1].sent = 1
                   /\ events[1].animation_id = last.pre.current

\* C26, the tick of no time: a tick with elapsed time 0 leaves completed,
\* direction, progress and current as it found them and sends no event.
ZeroTickChangesNothing ==
    last.elapsed = 0 =>
        /\ \A e \in DOMAIN animator : AnimatorTicked => AnimatorPlayback(e) = last.pre
        /\ \A e \in DOMAIN seqAnimator : SequenceTicked => SequencePlayback(e) = last.pre
        /\ AnimatorTicked \/ SequenceTicked => events = <<>>

\* C26: landing exactly on a boundary is not a crossing; the completion event
\* and the transition come only with a later tick of positive elapsed time;
\* and a tick with elapsed time 0 never changes the animator's state.
C26_BoundaryLandingIsNotACrossing ==
    BoundaryIsNotACrossing /\ ZeroTickChangesNothing

\* The number of steps of a Repeat::Once Forward sequence of n steps in a
\* playback state whose AnimationCompleted event has been due so far: all n
\* when it is completed, those before the current step otherwise.
StepsDone(playback, n) == IF playback.completed THEN n ELSE playback.current

\* C27: a Repeat::Once Forward SequenceAnimator of n >= 1 steps starts on
\* step 0, and each of its ticks sends the events of the steps it finishes, in
\* ascending order of animation_id and without a gap, from the step the tick
\* found it on; a tick that finds it completed sends none.  Over its lifetime
\* the events are therefore those of steps 0, 1, .., n-1, once each and in that
\* order, however the time is split into ticks.
C27_OnceForwardEventsInStepOrder ==
    \A e \in DOMAIN seqAnimator :
        LET a == seqAnimator[e]
            n == Len(a.seq)
        IN  a.repeat = "Once" /\ a.state.direction = "Forward" /\ n >= 1 =>
              /\ last.op \in {"SequenceAnimator::new", "SequenceAnimator::new_with_direction"} =>
                    a.current = 0 /\ ~a.state.completed /\ events = <<>>
              /\ SequenceTicked =>
                    LET before == StepsDone(last.pre, n)
                        done == StepsDone(SequencePlayback(e), n)
                    IN  /\ before <= done /\ done <= n
                        /\ Len(events) = done - before
                        /\ \A i \in DOMAIN events :
                              events[i].animation_id = before + i - 1
                        /\ last.pre.direction = "Forward"

\* One tick has taken a Repeat::Once Forward sequence of two steps from step
\* 0 to completion and sent the events of step 0 and step 1, in that order.
C27_Witness ==
    \E e \in DOMAIN seqAnimator :
        /\ SequenceTicked
        /\ seqAnimator[e].repeat = "Once"
        /\ seqAnimator[e].state.direction = "Forward"
        /\ Len(seqAnimator[e].seq) = 2
        /\ last.pre.current = 0 /\ ~last.pre.completed
        /\ seqAnimator[e].state.completed
        /\ Len(events) = 2
        /\ events[1].animation_id = 0
        /\ events[2].animation_id = 1

\* Every Animator with Repeat::Once and every non-empty SequenceAnimator with
\* Repeat::Once that the world holds is completed.
OnceCompleted ==
    /\ \A e \in DOMAIN animator :
          animator[e].repeat = "Once" => animator[e].state.completed
    /\ \A e \in DOMAIN seqAnimator :
          seqAnimator[e].repeat = "Once" /\ seqAnimator[e].seq # <<>> =>
              seqAnimator[e].state.completed

\* C28: under frames of positive delta that keep coming, an Animator with
\* Repeat::Once, or a non-empty SequenceAnimator with Repeat::Once, eventually
\* is completed and remains so for ever.  (Components are never removed and
\* never change their Repeat.)
C28_OnceEventuallyCompletes == <>[]OnceCompleted

\* A Repeat::Once sequence of two steps that earlier ticks had taken to the
\* middle of its second step has been completed by a tick of positive
\* elapsed time.
C28_Witness ==
    \E e \in DOMAIN seqAnimator :
        /\ SequenceTicked
        /\ seqAnimator[e].repeat = "Once"
        /\ Len(seqAnimator[e].seq) = 2
        /\ ~last.pre.completed
        /\ last.pre.current = 1
        /\ last.pre.progress > 0 /\ last.pre.progress < One
        /\ last.elapsed > 0
        /\ seqAnimator[e].state.completed

\* The SequenceAnimator of entity e as the latest tick found it.
SequenceBefore(e) ==
    [seqAnimator[e] EXCEPT !.current = last.pre.current,
                           !.state = [completed |-> last.pre.completed,
                                      direction |-> last.pre.direction,
                                      progress |-> last.pre.progress]]

\* C29: whatever state a SequenceAnimator tick with elapsed time t found, and
\* however t is split into a + b with a, b >= 0, a tick with a followed by a
\* tick with b from that state leaves the current, direction, progress and
\* completed the tick with t has left, and sends the events it has sent, in
\* the same order.
C29_TickPartitionIndependence ==
    \A e \in DOMAIN seqAnimator :
        SequenceTicked =>
            \A a \in 0..last.elapsed :
                \A first \in {SequenceAnimatorTick(SequenceBefore(e), last.preTarget, a, e,
                                                    <<>>, <<>>)} :
                    \A second \in {SequenceAnimatorTick(first.self, first.target,
                                                        last.elapsed - a, e, first.events,
                                                        <<>>)} :
                        /\ Playback(second.self.state, second.self.current) = SequencePlayback(e)
                        /\ second.events = events

\* A tick of 2.5 s has cascaded over two steps and sent two events: each of
\* its splits crosses the boundaries in one part or the other.
C29_Witness ==
    \E e \in DOMAIN seqAnimator :
        /\ SequenceTicked
        /\ last.elapsed = 5
        /\ ~last.pre.completed
        /\ Len(last.calls) >= 3
        /\ Len(events) >= 2
        /\ ~seqAnimator[e].state.completed

\* The entities that have both a SequenceAnimator and an Animator, of
\* different lens types, as the sprite of spawn_initial has.
DoublyAnimated ==
    {e \in DOMAIN animator \cap DOMAIN seqAnimator :
        animator[e].lens.field # SequenceLens(seqAnimator[e])}

\* C30: a turn of a system of the translation lens leaves the scale and the
\* rotation of every Transform as they were, and a turn of a system of the
\* scale lens leaves the translation and the rotation; so at the end of a
\* frame the Transform of an entity with a translation animator and a scale
\* animator is what the two ticks give from the frame's start in either
\* order: the translation of the one and the scale of the other.
C30_LensesWriteOnlyTheirField ==
    /\ [][frame.running # None /\ frame'.log # frame.log =>
             \A e \in DOMAIN transform :
                 /\ transform'[e].rotation = transform[e].rotation
                 /\ frame.running[1].lens = "translation" =>
                       transform'[e].scale = transform[e].scale
                 /\ frame.running[1].lens = "scale" =>
                       transform'[e].translation = transform[e].translation]_vars
    /\ [](FrameDone =>
            \A e \in DoublyAnimated :
                \A s \in {SequenceAnimatorTick(frame.start.seqAnimator[e],
                                                frame.start.transform[e], frame.dt, e,
                                                <<>>, <<>>)} :
                    \A a \in {AnimatorTick(frame.start.animator[e], frame.start.transform[e],
                                            frame.dt, e, <<>>)} :
                        /\ transform[e] =
                              AnimatorTick(frame.start.animator[e], s.target, frame.dt, e,
                                           <<>>).target
                        /\ transform[e] =
                              SequenceAnimatorTick(frame.start.seqAnimator[e], a.target,
                                                   frame.dt, e, <<>>, <<>>).target
                        /\ LensField(animator[e].lens, transform[e]) =
                              LensField(animator[e].lens, a.target)
                        /\ seqAnimator[e] = s.self /\ animator[e] = a.self)

\* A frame has ended in which the scale Animator of entity 1 was ticked
\* before its translation SequenceAnimator, and the Transform holds the
\* scale the one wrote and the translation the other wrote.
C30_Witness ==
    /\ FrameDone
    /\ 1 \in DoublyAnimated
    /\ transform[1].scale # frame.start.transform[1].scale
    /\ transform[1].translation # frame.start.transform[1].translation
    /\ transform[1].scale # SpawnTransform.scale
    /\ \E i, j \in DOMAIN frame.log :
          /\ i < j
          /\ frame.log[i].entity = 1 /\ frame.log[i].system = System("animation_tick_system", "scale")
          /\ frame.log[j].entity = 1
          /\ frame.log[j].system = System("animation_sequence_tick_system", "translation")

\* The numbers of the pressed keys of the table.
PressedNumbers ==
    {NUMERIC_KEY_CODES[i][2] : i \in {j \in DOMAIN NUMERIC_KEY_CODES :
                                          NUMERIC_KEY_CODES[j][1] \in key}}

\* The selection is a slot of the array or none, and the queries agree with
\* it: none selected, or an empty slot selected, yields no item.
SelectionInSlots ==
    /\ ~panicked
    /\ inventory.selected \in 0..9
    /\ DOMAIN inventory.items = 0..8
    /\ ~selected_item(inventory).panics
    /\ InventorySelectItem(inventory, 0) = clear_selection(inventory)
    /\ selected_slot(InventorySelectItem(inventory, 0)) = None
    /\ selected_item(InventorySelectItem(inventory, 0)) = Returns(None)
    /\ inventory.selected = 0 =>
          selected_slot(inventory) = None /\ selected_item(inventory) = Returns(None)
    /\ \A k \in 1..9 :
          inventory.selected = k /\ inventory.items[k - 1] = None =>
             selected_slot(inventory) = Some(k) /\ selected_item(inventory) = Returns(None)

\* A step that changes the selection sets it to the number of a pressed
\* numeric key, the last of them in the table, and changes nothing else of
\* the inventory.
SelectionSetFromKeys ==
    inventory'.selected # inventory.selected =>
       /\ PressedNumbers # {}
       /\ inventory'.selected = Max(PressedNumbers)
       /\ inventory'.items = inventory.items

\* C31: the selection of the BaseInventory is only ever set by select_item
\* from the numeric keys 0 to 9, so it always lies in 0..=9 and selected_item
\* never indexes outside the 9 slots; selecting 0 is the same as clearing
\* the selection (selected_slot and selected_item return None), and with an
\* empty slot k in 1..=9 selected, selected_slot returns Some(k) and
\* selected_item returns None.
C31_SelectionStaysInTheSlots == [](SelectionInSlots) /\ [][SelectionSetFromKeys]_vars

\* Key9 is held and the empty slot 9 is selected: selected_slot returns
\* Some(9) and selected_item None, after the item of slot 1 was selected,
\* shown under the cursor and placed, and its preview hidden again.
C31_Witness ==
    /\ Started
    /\ "Key9" \in key
    /\ inventory.selected = 9
    /\ get_item(inventory, 1) = Returns(Some(Item(1)))
    /\ get_item(inventory, 9) = Returns(None)
    /\ selected_slot(inventory) = Some(9)
    /\ selected_item(inventory) = Returns(None)
    /\ placed # <<>>
    /\ preview[1].visibility = "Hidden"
    /\ preview[1].translation # <<0, 0>>

====
